---- MODULE Spec2Model ----
(***************************************************************************)
(* Githubpedia: the repository-context retrieval and answer-synthesis      *)
(* pipeline (src/services/mcpService.ts, src/services/queryService.ts),    *)
(* one query at a time, against a GitHub REST API and an LLM provider      *)
(* whose answers are chosen nondeterministically.                          *)
(*                                                                         *)
(* Strings the code inspects (paths, queries, file contents) are sequences *)
(* of one-character strings; an optional value (T | undefined) is <<>> for *)
(* undefined and <<v>> for the value v.                                    *)
(***************************************************************************)
EXTENDS Integers, Sequences, FiniteSets, TLC

VARIABLES
  ctx,            \* processQuery's argument: repository, query, githubToken, llmConfig.provider
  pc,             \* the position of processQuery
  llm,            \* the client createLLM built (<<>> before)
  readme,         \* getRepositoryContext: readme (optional)
  files,          \* getRelevantCodeContext: files, then codeContext.files
  ctxError,       \* codeContext.error (optional)
  structure,      \* getRepositoryContext: structure (optional)
  items,          \* searchData.items as GitHub returned them
  relevantFiles,  \* getRelevantCodeContext: relevantFiles
  scoredFiles,    \* getAdditionalRelevantFiles: scoredFiles
  idx,            \* the index of the running for-loop
  log,            \* the HTTP requests made to api.github.com, in order, with their status
  outage,         \* 0, or the status every GitHub request now ends with
  repoFiles,      \* what is known so far of the repository's files
  prompt,         \* the system prompt handed to the LLM (optional)
  llmCalls,       \* the number of llm.invoke calls
  result,         \* processQuery's QueryResult (optional)
  apiResponse,    \* what the latest callGitHubAPI call returned (optional)
  thrown,         \* the error llm.invoke threw (optional)
  legacy,         \* generateResponse's result in the tool-planning variant (optional)
  request,        \* route.ts: the request POST /api/query received (optional)
  routeResponse,  \* route.ts: the response POST /api/query gave (optional)
  url,            \* githubUtils: the text handed to isValidGitHubUrl (optional)
  valid,          \* githubUtils: what isValidGitHubUrl returned (optional)
  parsed,         \* githubUtils: what parseGitHubUrl returned for it (optional)
  cookieJar,      \* the browser's llm-config cookie (optional)
  validatedKeys,  \* the pairs of provider and API key that validateApiKey accepted
  setupResponse,  \* the status of the latest answer of /api/llm-setup or /api/llm-switch
  threads,        \* ChatInterface: threads
  activeThreadId, \* ChatInterface: activeThreadId (optional)
  chatThreads,    \* localStorage: the item chat-threads (optional)
  now,            \* Date.now() at the latest handler that read the clock
  messages,       \* ChatWindow: messages
  input,          \* ChatWindow: input
  isLoading,      \* ChatWindow: isLoading
  isLoadingRepo,  \* ChatWindow: isLoadingRepo
  messageStore,   \* localStorage: the item messages-<threadId> of each thread (optional)
  inFlight,       \* the /api/query requests of the chat window that await their answer
  pendingRepo     \* the /api/repositories requests of handleRepositorySubmit that await theirs

vars == << ctx, pc, llm, readme, files, ctxError, structure, items, relevantFiles,
           scoredFiles, idx, log, outage, repoFiles, apiResponse, prompt, llmCalls, result, legacy,
           thrown, request, routeResponse,
           url, valid, parsed, cookieJar, validatedKeys, setupResponse,
           threads, activeThreadId, chatThreads, now,
           messages, input, isLoading, isLoadingRepo, messageStore, inFlight, pendingRepo >>

----------------------------------------------------------------------------
(* JavaScript built-ins the code uses *)

Undefined == << >>
Some(v) == << v >>
IsDefined(o) == o # << >>

Min(a, b) == IF a <= b THEN a ELSE b

UpperCase == << "A", "B", "C", "D", "E", "F", "G", "H", "I", "J", "K", "L", "M",
                "N", "O", "P", "Q", "R", "S", "T", "U", "V", "W", "X", "Y", "Z" >>
LowerCase == << "a", "b", "c", "d", "e", "f", "g", "h", "i", "j", "k", "l", "m",
                "n", "o", "p", "q", "r", "s", "t", "u", "v", "w", "x", "y", "z" >>

LowerChar(c) ==
  IF \E k \in 1..Len(UpperCase) : UpperCase[k] = c
  THEN LowerCase[CHOOSE k \in 1..Len(UpperCase) : UpperCase[k] = c]
  ELSE c

\* String.prototype.toLowerCase
toLowerCase(s) == [i \in 1..Len(s) |-> LowerChar(s[i])]

\* String.prototype.includes
includes(s, t) ==
  \E i \in 0..(Len(s) - Len(t)) : SubSeq(s, i + 1, i + Len(t)) = t

\* String.prototype.endsWith
endsWith(s, t) ==
  /\ Len(t) <= Len(s)
  /\ SubSeq(s, Len(s) - Len(t) + 1, Len(s)) = t

\* String.prototype.substring(0, n) and Array.prototype.slice(0, n)
slice(s, n) == SubSeq(s, 1, Min(n, Len(s)))

\* String.prototype.split with a one-character separator (by halves: the piece
\* that ends the left half and the piece that starts the right half are one piece)
RECURSIVE split(_, _)
split(s, sep) ==
  IF Len(s) = 0 THEN << << >> >>
  ELSE IF Len(s) = 1 THEN (IF s[1] = sep THEN << << >>, << >> >> ELSE << s >>)
  ELSE LET half == Len(s) \div 2
           l == split(SubSeq(s, 1, half), sep)
           r == split(SubSeq(s, half + 1, Len(s)), sep)
       IN SubSeq(l, 1, Len(l) - 1) \o << l[Len(l)] \o r[1] >> \o Tail(r)

\* Array.prototype.join with a one-character separator (by halves)
RECURSIVE join(_, _)
join(parts, sep) ==
  IF Len(parts) = 0 THEN << >>
  ELSE IF Len(parts) = 1 THEN parts[1]
  ELSE LET half == Len(parts) \div 2
       IN join(SubSeq(parts, 1, half), sep) \o << sep >>
          \o join(SubSeq(parts, half + 1, Len(parts)), sep)

\* [...new Set(xs)]: the first occurrence of each element, in order
\* a faulty dedupe that keeps every element
dedupe_KeepAll(xs) == xs

RECURSIVE dedupe(_)
dedupe(xs) ==
  IF Len(xs) = 0 THEN << >>
  ELSE LET front == dedupe(SubSeq(xs, 1, Len(xs) - 1))
           last  == xs[Len(xs)]
       IN IF \E i \in 1..Len(front) : front[i] = last
          THEN front
          ELSE Append(front, last)

Range(s) == { s[i] : i \in 1..Len(s) }

----------------------------------------------------------------------------
(* The components around processQuery *)

\* the state processQuery does not touch
routeVars == << request, routeResponse >>
urlVars == << url, valid, parsed >>
setupVars == << cookieJar, validatedKeys, setupResponse >>
threadVars == << threads, activeThreadId, chatThreads, now >>
chatVars == << messages, input, isLoading, isLoadingRepo, messageStore, inFlight, pendingRepo >>
others == << routeVars, urlVars, setupVars, threadVars, chatVars >>

\* no request has reached POST /api/query
RouteIdle ==
  /\ request = Undefined
  /\ routeResponse = Undefined

\* no AI provider was ever configured
SetupIdle ==
  /\ cookieJar = Undefined
  /\ validatedKeys = { }
  /\ setupResponse = 0

\* the page was never opened
ThreadsIdle ==
  /\ threads = << >>
  /\ activeThreadId = Undefined
  /\ chatThreads = Undefined
  /\ now = 0

\* the threads whose chat window is explored
ChatThreadIds == { << "thread-", 1 >>, << "thread-", 2 >> }

\* no chat window was ever shown
ChatIdle ==
  /\ messages = << >>
  /\ input = << >>
  /\ isLoading = FALSE
  /\ isLoadingRepo = FALSE
  /\ messageStore = [id \in ChatThreadIds |-> Undefined]
  /\ inFlight = { }
  /\ pendingRepo = { }

\* nothing was handed to isValidGitHubUrl
UrlIdle ==
  /\ url = Undefined
  /\ valid = Undefined
  /\ parsed = Undefined

----------------------------------------------------------------------------
(* Program constants *)

SearchLimit == 5        \* items.slice(0, 5)
CommonLimit == 3        \* if (files.length >= 3) break
EnrichBelow == 3        \* codeContext.files.length < 3
AdditionalLimit == 5    \* .slice(0, 5) of the scored files
PerPage == 10           \* /search/code ... per_page=10
LineLimit == 100        \* Math.min(100, lines.length), lines.slice(0, 100)
PreviewLimit == 2000    \* file.content.substring(0, 2000)
LegacyLineLimit == 50   \* the tool-planning variant's Math.min(50, lines)
LargeFile == 50000      \* item.size > 50000
DeepPath == 4           \* item.path.split('/').length > 4

NoTokenCode == -1       \* callGitHubAPI without a token; also 'Path is not a file'
NetworkCode == -3       \* callGitHubAPI's catch

commonFiles ==
  << <<"R", "E", "A", "D", "M", "E", ".", "m", "d">>,
     <<"p", "a", "c", "k", "a", "g", "e", ".", "j", "s", "o", "n">>,
     <<"r", "e", "q", "u", "i", "r", "e", "m", "e", "n", "t", "s", ".", "t", "x", "t">>,
     <<"C", "a", "r", "g", "o", ".", "t", "o", "m", "l">>,
     <<"g", "o", ".", "m", "o", "d">>,
     <<"p", "o", "m", ".", "x", "m", "l">>,
     <<"s", "r", "c", "/", "i", "n", "d", "e", "x", ".", "j", "s">>,
     <<"s", "r", "c", "/", "i", "n", "d", "e", "x", ".", "t", "s">>,
     <<"s", "r", "c", "/", "m", "a", "i", "n", ".", "j", "s">>,
     <<"s", "r", "c", "/", "m", "a", "i", "n", ".", "t", "s">>,
     <<"s", "r", "c", "/", "a", "p", "p", ".", "j", "s">>,
     <<"s", "r", "c", "/", "a", "p", "p", ".", "t", "s">>,
     <<"i", "n", "d", "e", "x", ".", "j", "s">>,
     <<"i", "n", "d", "e", "x", ".", "t", "s">>,
     <<"a", "p", "p", ".", "j", "s">>,
     <<"a", "p", "p", ".", "t", "s">>,
     <<"m", "a", "i", "n", ".", "p", "y">>,
     <<"m", "a", "i", "n", ".", "g", "o">>,
     <<"m", "a", "i", "n", ".", "r", "s">> >>

SupportedProviders == { "openai", "anthropic", "openrouter" }

----------------------------------------------------------------------------
(* The environment: the repositories, queries and GitHub answers explored *)

P_README == <<"R", "E", "A", "D", "M", "E", ".", "m", "d">>
P_PACKAGE == <<"p", "a", "c", "k", "a", "g", "e", ".", "j", "s", "o", "n">>
P_SRC_INDEX_TS == <<"s", "r", "c", "/", "i", "n", "d", "e", "x", ".", "t", "s">>
P_MAIN_RS == <<"m", "a", "i", "n", ".", "r", "s">>
P_APP_JS == <<"a", "p", "p", ".", "j", "s">>
P_AUTH == <<"s", "r", "c", "/", "a", "u", "t", "h", ".", "t", "s">>
P_UTIL == <<"l", "i", "b", "/", "u", "t", "i", "l", ".", "p", "y">>
P_DEEP == <<"a", "/", "b", "/", "c", "/", "d", "/", "A", "u", "t", "h", ".", "g", "o">>
P_DEEP3 == <<"a", "/", "b", "/", "c", "/", "s", "e", "t", "u", "p", ".", "c", "f", "g">>
P_BIG == <<"d", "o", "c", "s", "/", "b", "i", "g", ".", "b", "i", "n">>
P_TEST == <<"t", "e", "s", "t", "/", "s", "p", "e", "c", ".", "t", "x", "t">>
P_NOTES == <<"n", "o", "t", "e", "s", ".", "t", "x", "t">>
P_SRC == <<"s", "r", "c">>
P_GONE == <<"o", "l", "d", ".", "j", "s">>

Q_AUTH == <<"a", "u", "t", "h">>
Q_HOW == <<"H", "o", "w", " ", " ", "a", "u", "t", "h", " ">>

Queries == { Q_AUTH, Q_HOW }
Repositories == { [owner |-> "octo", repo |-> "wiki"] }
Tokens == { "", "gho_token" }
Providers == SupportedProviders \cup { "cohere" }
\* the arguments of processQuery explored: one provider with every token and query
\* (what follows createLLM does not look at the provider), the other supported ones
\* without a token, the unsupported one with and without
Contexts ==
  { c \in [ repository : Repositories, query : Queries,
            githubToken : Tokens, provider : Providers ] :
      \/ c.provider = "openai"
      \/ c.query = Q_AUTH /\ (c.githubToken = "" \/ c.provider \notin SupportedProviders) }

ExtraLines == 30        \* the longest file has LineLimit + ExtraLines lines

\* n copies of the line "x", joined by newlines
TextOfLines(n) == join([i \in 1..n |-> << "x" >>], "\n")

\* the paths that may exist in the repository; any other path is a 404
RepoPaths == { P_README, P_PACKAGE, P_SRC_INDEX_TS, P_MAIN_RS, P_APP_JS, P_AUTH,
               P_UTIL, P_DEEP, P_DEEP3, P_BIG, P_TEST, P_NOTES }

File(content) == [kind |-> "file", content |-> content]
Absent == [kind |-> "absent", content |-> << >>]
Directory == [kind |-> "dir", content |-> << >>]
Unknown == [kind |-> "unknown", content |-> << >>]

\* what a path of the repository may turn out to be
PossibleFiles(p) ==
  IF p = P_README THEN { Absent, File(<< >>), File(<< "#", " ", "w" >>) }
  ELSE IF p = P_APP_JS THEN { Absent, Directory }
  ELSE IF p = P_PACKAGE THEN { Absent, File(<< "{", "\n", "}", "\n" >>) }
  ELSE IF p = P_SRC_INDEX_TS THEN { Absent, File(TextOfLines(LineLimit)) }
  ELSE IF p = P_MAIN_RS THEN { Absent, File(TextOfLines(LineLimit + 1)) }
  ELSE IF p = P_UTIL THEN { Absent, File(TextOfLines(LineLimit + ExtraLines)) }
  ELSE IF p \in { P_AUTH, P_DEEP3 } THEN { Absent, File(<< "x", "\n" >>) }
  ELSE IF p \in RepoPaths THEN { File(<< "x" >>) }
  ELSE { Absent }

\* the code-search hits GitHub may rank, best first
HitPaths == << P_AUTH, P_GONE, P_UTIL, P_README, P_AUTH, P_PACKAGE,
               P_MAIN_RS, P_NOTES, P_TEST, P_DEEP >>
RankedHits == [i \in 1..PerPage |-> [path |-> HitPaths[i], score |-> 2 * (PerPage - i) + 1]]
MaxHits == 6            \* the longest search result explored (at most PerPage)
SearchResults == { SubSeq(RankedHits, 1, n) : n \in 0..Min(MaxHits, PerPage) }

Blob(p, size) == [path |-> p, type |-> "blob", size |-> size]
BigTree == << Blob(P_NOTES, Some(10)), [path |-> P_SRC, type |-> "tree", size |-> Undefined],
              Blob(P_BIG, Some(LargeFile + 1)), Blob(P_DEEP3, Some(LargeFile)),
              Blob(P_AUTH, Some(300)), Blob(P_DEEP, Undefined), Blob(P_README, Some(3)),
              Blob(P_TEST, Some(40)), Blob(P_UTIL, Some(900)), Blob(P_PACKAGE, Some(4)) >>
Trees == { << >>, SubSeq(BigTree, 1, 3), BigTree }

\* the status GitHub may start answering every request with (the rate limit is used up)
OutageCodes == { 403 }
\* statuses of a failing search or tree request while the rest works
SearchFailures == { 500, NetworkCode }
TreeFailures == { 404, 401 }

LLMAnswers == { << "The repository ..." >> }
\* what llm.invoke may throw: the message and the substrings the catch looks for in it
\* the messages with which a provider rejects the API key: the second one quotes the end
\* of the key, which here holds the digits 404
KeyRejections ==
  { [message |-> << "Incorrect API key provided" >>, has |-> { "API key" }],
    [message |-> << "401 Incorrect API key provided: sk-proj-****404A." >>,
     has |-> { "API key", "404" }] }
LLMErrors == KeyRejections \cup {
               [message |-> << "fetch failed" >>, has |-> { "fetch" }],
               [message |-> << "429 rate limit reached for requests" >>, has |-> { "rate limit" }],
               [message |-> << "model overloaded" >>, has |-> { }] }

----------------------------------------------------------------------------
(* mcpService.ts: the GitHub client *)

Err(code, message) == [error |-> Some([code |-> code, message |-> message]), result |-> Undefined]
Ok(data) == [error |-> Undefined, result |-> Some(data)]

\* GitHub's answer to one request: the HTTP status (NetworkCode when fetch threw) and the body
Http(status, body) == [status |-> status, body |-> body]

StatusText(status) ==
  IF status = 500 THEN "500 Internal Server Error"
  ELSE IF status = 422 THEN "422 Unprocessable Entity"
  ELSE "other"

\* a faulty callGitHubAPI that throws on a non-2xx status inside its own try, so that
\* its catch reports every failure as a failed request
callGitHubAPI_Rethrown(token, http) ==
  IF token = ""
  THEN Err(NoTokenCode, << "GitHub token is required for all API operations. Please configure your GitHub token." >>)
  ELSE IF ~(http.status \in 200..299)
  THEN Err(NetworkCode, << "GitHub API request failed: ", "fetch failed", ". Please check your internet connection." >>)
  ELSE Ok(http.body)

\* a faulty callGitHubAPI that sends the request without looking at the token
callGitHubAPI_Unguarded(token, http) ==
  IF http.status = NetworkCode
  THEN Err(NetworkCode, << "GitHub API request failed: ", "fetch failed", ". Please check your internet connection." >>)
  ELSE IF ~(http.status \in 200..299)
  THEN Err(http.status, << "GitHub API error: ", StatusText(http.status) >>)
  ELSE Ok(http.body)

\* callGitHubAPI: the response for a token and, when a request is made, GitHub's answer
callGitHubAPI(token, http) ==
  IF token = ""
  THEN Err(NoTokenCode, << "GitHub token is required for all API operations. Please configure your GitHub token." >>)
  ELSE IF http.status = NetworkCode
  THEN Err(NetworkCode, << "GitHub API request failed: ", "fetch failed", ". Please check your internet connection." >>)
  ELSE IF ~(http.status \in 200..299)
  THEN Err(http.status,
           IF http.status = 404 THEN << "Resource not found or repository is private" >>
           ELSE IF http.status = 403 THEN << "Rate limit exceeded or insufficient permissions" >>
           ELSE IF http.status = 401 THEN << "Invalid GitHub token or token expired" >>
           ELSE << "GitHub API error: ", StatusText(http.status) >>)
  ELSE Ok(http.body)

\* getFileContents, after its callGitHubAPI returned response (the base64 body is held decoded)
getFileContents(response) ==
  IF IsDefined(response.error) THEN response
  ELSE LET data == response.result[1]
       IN IF data.kind # "file"
          THEN Err(NoTokenCode, << "Path is not a file" >>)
          ELSE Ok([content |-> data.content, size |-> Len(data.content), type |-> "file"])

\* what GitHub may answer now, given what it would answer while it works
GitHubAnswers(working, nobody) ==
  IF outage # 0
  THEN { Http(outage, nobody) }
  ELSE { Http(c, nobody) : c \in OutageCodes } \cup working

ContentsAnswers(p) ==
  GitHubAnswers(
    { Http(IF v = Absent THEN 404 ELSE 200, v) :
        v \in IF p \in RepoPaths /\ repoFiles[p] # Unknown
              THEN { repoFiles[p] }
              ELSE PossibleFiles(p) },
    Absent)

SearchAnswers ==
  GitHubAnswers({ Http(200, its) : its \in SearchResults }
                  \cup { Http(c, << >>) : c \in SearchFailures }, << >>)

TreeAnswers ==
  GitHubAnswers({ Http(200, t) : t \in Trees }
                  \cup { Http(c, << >>) : c \in TreeFailures }, << >>)

\* the answers callGitHubAPI can get: none is asked for without a token
Asked(answers, nobody) ==
  IF ctx.githubToken = "" THEN { Http(0, nobody) } ELSE answers

\* the bookkeeping of one callGitHubAPI call
Call(tier, endpoint, path, http) ==
  /\ log' = IF ctx.githubToken = "" THEN log
            ELSE Append(log, [tier |-> tier, endpoint |-> endpoint, path |-> path,
                              status |-> http.status])
  /\ outage' = IF ctx.githubToken # "" /\ http.status \in OutageCodes
               THEN http.status ELSE outage
  /\ repoFiles' = IF /\ ctx.githubToken # ""
                     /\ endpoint = "contents"
                     /\ path \in RepoPaths
                     /\ http.status \in { 200, 404 }
                  THEN [repoFiles EXCEPT ![path] = http.body]
                  ELSE repoFiles
  /\ apiResponse' = Some(callGitHubAPI(ctx.githubToken, http))

\* files.push({ path, content, relevance }) when the fetch gave a result
Pushed(fs, path, fileResult, relevance) ==
  IF ~IsDefined(fileResult.error) /\ IsDefined(fileResult.result)
  THEN Append(fs, [path |-> path, content |-> fileResult.result[1].content,
                   relevance |-> relevance])
  ELSE fs

----------------------------------------------------------------------------
(* mcpService.ts: getAdditionalRelevantFiles' scoring *)

\* score += 10 when some term of queryLower.split(' ') is in the path
queryBonus(queryLower, pathLower) ==
  LET terms == split(queryLower, " ")
  IN IF \E k \in 1..Len(terms) : includes(pathLower, terms[k]) THEN 10 ELSE 0

\* the bonuses for the directory, the extension and the name of the file
pathBonus(pathLower) ==
    (IF \/ includes(pathLower, << "s", "r", "c", "/" >>)
        \/ includes(pathLower, << "l", "i", "b", "/" >>) THEN 5 ELSE 0)
  + (IF \/ endsWith(pathLower, << ".", "j", "s" >>)
        \/ endsWith(pathLower, << ".", "t", "s" >>) THEN 3 ELSE 0)
  + (IF \/ endsWith(pathLower, << ".", "p", "y" >>)
        \/ endsWith(pathLower, << ".", "g", "o" >>)
        \/ endsWith(pathLower, << ".", "r", "s" >>) THEN 3 ELSE 0)
  + (IF \/ includes(pathLower, << "m", "a", "i", "n" >>)
        \/ includes(pathLower, << "i", "n", "d", "e", "x" >>)
        \/ includes(pathLower, << "a", "p", "p" >>) THEN 4 ELSE 0)
  + (IF \/ includes(pathLower, << "c", "o", "n", "f", "i", "g" >>)
        \/ includes(pathLower, << "s", "e", "t", "u", "p" >>) THEN 2 ELSE 0)
  + (IF \/ includes(pathLower, << "t", "e", "s", "t" >>)
        \/ includes(pathLower, << "s", "p", "e", "c" >>) THEN 1 ELSE 0)

\* if (item.size && item.size > 50000) score -= 2
sizePenalty(item) ==
  IF IsDefined(item.size) /\ item.size[1] # 0 /\ item.size[1] > LargeFile THEN 2 ELSE 0

\* a faulty depth penalty that compares against the number of slashes
depthPenalty_BySlashes(item) ==
  IF Len(split(item.path, "/")) - 1 > DeepPath THEN 1 ELSE 0

\* if (item.path.split('/').length > 4) score -= 1
depthPenalty(item) ==
  IF Len(split(item.path, "/")) > DeepPath THEN 1 ELSE 0

\* the score of one tree entry for the (lowercased) query
scoreOf(queryLower, item) ==
    queryBonus(queryLower, toLowerCase(item.path))
  + pathBonus(toLowerCase(item.path))
  - sizePenalty(item)
  - depthPenalty(item)

\* a faulty sort that leaves the files in tree order
sortByScore_TreeOrder(xs) == xs

\* Array.prototype.sort((a, b) => b.score - a.score): stable, highest score first
RECURSIVE sortByScore(_)
sortByScore(xs) ==
  IF Len(xs) <= 1 THEN xs
  ELSE LET rest == sortByScore(SubSeq(xs, 1, Len(xs) - 1))
           x == xs[Len(xs)]
           k == Cardinality({ i \in 1..Len(rest) : rest[i].score >= x.score })
       IN SubSeq(rest, 1, k) \o << x >> \o SubSeq(rest, k + 1, Len(rest))

\* a faulty selection that keeps every scored file (no slice)
scored_Unsliced(query, tree, excludePaths) ==
  LET queryLower == toLowerCase(query)
      kept == SelectSeq(tree, LAMBDA item :
                /\ item.type = "blob"
                /\ ~(item.path \in Range(excludePaths)))
      mapped == [i \in 1..Len(kept) |->
                  [path |-> kept[i].path, type |-> kept[i].type, size |-> kept[i].size,
                   score |-> scoreOf(queryLower, kept[i])]]
  IN sortByScore(mapped)

\* tree.filter(...).map(...).sort(...).slice(0, 5)
scored(query, tree, excludePaths) ==
  LET queryLower == toLowerCase(query)
      kept == SelectSeq(tree, LAMBDA item :
                /\ item.type = "blob"
                /\ ~(item.path \in Range(excludePaths)))
      mapped == [i \in 1..Len(kept) |->
                  [path |-> kept[i].path, type |-> kept[i].type, size |-> kept[i].size,
                   score |-> scoreOf(queryLower, kept[i])]]
  IN slice(sortByScore(mapped), AdditionalLimit)

----------------------------------------------------------------------------
(* queryService.ts: createLLM, the prompt, the post-processing, the catch *)

\* a faulty createLLM that takes an unknown provider for an OpenAI-compatible one
createLLM_Lenient(provider) ==
  IF provider = "anthropic" THEN Ok("ChatAnthropic") ELSE Ok("ChatOpenAI")

createLLM(provider) ==
  IF provider \in { "openai", "openrouter" } THEN Ok("ChatOpenAI")
  ELSE IF provider = "anthropic" THEN Ok("ChatAnthropic")
  ELSE Err(0, [message |-> << "Unsupported LLM provider: ", provider >>, has |-> { }])

hasReadme(context) == IsDefined(context.readme) /\ Len(context.readme[1]) > 0
hasCodeFiles(context) == Len(context.codeFiles) > 0
\* a faulty hasStructure that takes an empty tree for no tree
hasStructure_NonEmpty(context) ==
  IsDefined(context.structure) /\ Len(context.structure[1].tree) > 0
hasStructure(context) == IsDefined(context.structure)

\* a faulty branch choice that does not look at the tree
promptBranch_NoTree(context) ==
  IF hasReadme(context) \/ hasCodeFiles(context)
  THEN "Available repository data:"
  ELSE "Note: Limited repository data is available."

\* the branch of the system prompt
promptBranch(context) ==
  IF hasReadme(context) \/ hasCodeFiles(context) \/ hasStructure(context)
  THEN "Available repository data:"
  ELSE "Note: Limited repository data is available."

\* the system prompt, by its parts
systemPrompt(repository, context) ==
  [ repository |-> repository,
    branch |-> promptBranch(context),
    readme |-> IF promptBranch(context) = "Available repository data:" /\ hasReadme(context)
               THEN context.readme ELSE Undefined,
    files |-> IF promptBranch(context) = "Available repository data:" /\ hasCodeFiles(context)
              THEN [i \in 1..Len(context.codeFiles) |->
                     [path |-> context.codeFiles[i].path,
                      relevance |-> context.codeFiles[i].relevance,
                      preview |-> slice(context.codeFiles[i].content, PreviewLimit),
                      truncated |-> Len(context.codeFiles[i].content) > PreviewLimit]]
              ELSE << >>,
    structure |-> IF promptBranch(context) = "Available repository data:" /\ hasStructure(context)
                  THEN context.structure ELSE Undefined ]

repoUrl(repository) == << "https://github.com/", repository.owner, "/", repository.repo >>
blobUrl(repository, path) == repoUrl(repository) \o << "/blob/main/" >> \o path

\* a faulty CodeReference whose content is one line short
codeReference_LineShort(repository, file) ==
  LET lines == split(file.content, "\n")
  IN [ file |-> file.path,
       startLine |-> 1,
       endLine |-> Min(LineLimit, Len(lines)),
       content |-> join(slice(lines, LineLimit - 1), "\n"),
       url |-> blobUrl(repository, file.path) ]

\* a faulty CodeReference that spans the whole file
codeReference_Whole(repository, file) ==
  LET lines == split(file.content, "\n")
  IN [ file |-> file.path,
       startLine |-> 1,
       endLine |-> Len(lines),
       content |-> file.content,
       url |-> blobUrl(repository, file.path) ]

\* the CodeReference of one selected file
codeReference(repository, file) ==
  LET lines == split(file.content, "\n")
  IN [ file |-> file.path,
       startLine |-> 1,
       endLine |-> Min(LineLimit, Len(lines)),
       content |-> join(slice(lines, LineLimit), "\n"),
       url |-> blobUrl(repository, file.path) ]

\* a faulty source list that puts the README after the files
sourcesOf_ReadmeLast(repository, context) ==
  << repoUrl(repository) >>
  \o (IF hasCodeFiles(context)
      THEN [i \in 1..Len(context.codeFiles) |-> blobUrl(repository, context.codeFiles[i].path)]
      ELSE << >>)
  \o (IF hasReadme(context) THEN << blobUrl(repository, P_README) >> ELSE << >>)

\* sources, before the duplicates are removed
sourcesOf(repository, context) ==
  << repoUrl(repository) >>
  \o (IF hasReadme(context) THEN << blobUrl(repository, P_README) >> ELSE << >>)
  \o (IF hasCodeFiles(context)
      THEN [i \in 1..Len(context.codeFiles) |-> blobUrl(repository, context.codeFiles[i].path)]
      ELSE << >>)

\* generateResponseWithContext's return value for the LLM's answer
generated(repository, context, answer) ==
  [ answer |-> answer,
    sources |-> dedupe(sourcesOf(repository, context)),
    codeReferences |-> IF hasCodeFiles(context)
                       THEN [i \in 1..Len(context.codeFiles) |->
                              codeReference(repository, context.codeFiles[i])]
                       ELSE << >> ]

Success(response) ==
  [ success |-> TRUE, response |-> Some(response.answer), sources |-> Some(response.sources),
    codeReferences |-> Some(response.codeReferences), error |-> Undefined ]
Failure(message) ==
  [ success |-> FALSE, response |-> Undefined, sources |-> Undefined,
    codeReferences |-> Undefined, error |-> Some(message) ]

\* processQuery's catch block, for a thrown Error
caught(error) ==
  IF "Remote MCP server" \in error.has
  THEN Failure(<< "GitHub MCP server is currently unavailable. Please try again in a few minutes." >>)
  ELSE IF "rate limit" \in error.has \/ "403" \in error.has
  THEN Failure(<< "GitHub rate limit exceeded. Please wait a few minutes before trying again." >>)
  ELSE IF "fetch" \in error.has \/ "network" \in error.has \/ "ENOTFOUND" \in error.has
  THEN Failure(<< "Network error occurred. Please check your internet connection and try again." >>)
  ELSE IF "404" \in error.has \/ "Not Found" \in error.has
  THEN Failure(<< "Repository not found or not accessible. Please check the repository URL and your permissions." >>)
  ELSE IF "API key" \in error.has \/ "authentication" \in error.has
  THEN Failure(<< "AI provider authentication failed. Please check your API key configuration." >>)
  ELSE Failure(<< "Query processing failed: " >> \o error.message
               \o << ". Please try again or contact support if the issue persists." >>)

----------------------------------------------------------------------------
(* middleware.ts: generateResponse of the tool-planning variant, its post-processing *)

RECURSIVE flatten(_)
flatten(xss) == IF Len(xss) = 0 THEN << >> ELSE xss[1] \o flatten(Tail(xss))

\* the text of a fileContents entry's content: a string, or an object holding one
legacyText(content) ==
  IF content.type = "string" THEN content.text
  ELSE IF content.type = "object" /\ IsDefined(content.content) THEN content.content[1]
  ELSE << >>

\* if (file.content) of a fileContents entry: any object, or a non-empty string
legacyTruthy(content) ==
  \/ content.type = "object"
  \/ content.type = "string" /\ Len(content.text) > 0

\* the code references pushed for one fileContents entry (none or one)
legacyReference(repository, entry) ==
  IF /\ IsDefined(entry.file)
     /\ legacyTruthy(entry.content)
     /\ Len(legacyText(entry.content)) > 0
  THEN << [ file |-> entry.file[1],
            startLine |-> 1,
            endLine |-> Min(LegacyLineLimit, Len(split(legacyText(entry.content), "\n"))),
            content |-> join(slice(split(legacyText(entry.content), "\n"), LegacyLineLimit), "\n"),
            url |-> blobUrl(repository, entry.file[1]) ] >>
  ELSE << >>

\* generateResponse's return value for the LLM's answer
legacyGenerated(repository, repositoryData, answer) ==
  LET fc == repositoryData.fileContents
      cs == repositoryData.codeSearch
      fileSources == flatten([i \in 1..Len(fc) |->
                        IF IsDefined(fc[i].file)
                        THEN << blobUrl(repository, fc[i].file[1]) >> ELSE << >>])
      searchSources == flatten([i \in 1..Len(cs) |->
                        IF IsDefined(cs[i].items)
                        THEN flatten([j \in 1..Len(cs[i].items[1]) |-> cs[i].items[1][j]])
                        ELSE << >>])
  IN [ answer |-> answer,
       sources |-> dedupe(<< repoUrl(repository) >> \o fileSources \o searchSources),
       codeReferences |-> flatten([i \in 1..Len(fc) |-> legacyReference(repository, fc[i])]) ]

\* the repository data the tool-planning variant is explored on
LegacyLines == 60       \* the lines of the longest file in LegacyEntries
LegacyEntries ==
  { [file |-> Some(P_README),
     content |-> [type |-> "string", text |-> TextOfLines(LegacyLines), content |-> Undefined]],
    [file |-> Some(P_PACKAGE),
     content |-> [type |-> "object", text |-> << >>, content |-> Some(<< "{", "\n", "}", "\n" >>)]],
    [file |-> Some(P_MAIN_RS),
     content |-> [type |-> "string", text |-> << >>, content |-> Undefined]],
    [file |-> Undefined,
     content |-> [type |-> "object", text |-> << >>, content |-> Undefined]] }
LegacySearches(repository) ==
  { << >>,
    << [items |-> Some(<< Some(blobUrl(repository, P_README)), Some(repoUrl(repository)) >>)] >>,
    << [items |-> Some(<< Some(blobUrl(repository, P_AUTH)), Undefined,
                          Some(blobUrl(repository, P_AUTH)) >>)],
       [items |-> Undefined] >> }
LegacyData(repository) ==
  { [fileContents |-> fc, codeSearch |-> cs] :
      fc \in { << >> } \cup { << a >> : a \in LegacyEntries }
               \cup { << a, b >> : a \in LegacyEntries, b \in LegacyEntries },
      cs \in LegacySearches(repository) }

----------------------------------------------------------------------------
(* processQuery, step by step: one action per awaited call *)

\* the object getRepositoryContext returns
repositoryContext ==
  [ readme |-> readme, codeFiles |-> files, structure |-> structure, error |-> ctxError ]

pathsOf(fs) == [i \in 1..Len(fs) |-> fs[i].path]

Init ==
  /\ ctx \in Contexts
  /\ pc = "processQuery"
  /\ llm = Undefined
  /\ readme = Undefined
  /\ files = << >>
  /\ ctxError = Undefined
  /\ structure = Undefined
  /\ items = << >>
  /\ relevantFiles = << >>
  /\ scoredFiles = << >>
  /\ idx = 1
  /\ log = << >>
  /\ outage = 0
  /\ repoFiles = [p \in RepoPaths |-> Unknown]
  /\ prompt = Undefined
  /\ llmCalls = 0
  /\ result = Undefined
  /\ apiResponse = Undefined
  /\ legacy = Undefined
  /\ thrown = Undefined
  /\ RouteIdle
  /\ UrlIdle
  /\ SetupIdle
  /\ ThreadsIdle
  /\ ChatIdle

\* the state of processQuery
pipeline == << ctx, pc, llm, readme, files, ctxError, structure, items, relevantFiles,
               scoredFiles, idx, log, outage, repoFiles, apiResponse, prompt, llmCalls,
               result, legacy, thrown >>

\* processQuery has not been called
PipelineIdle ==
  /\ ctx = Undefined
  /\ pc = "idle"
  /\ llm = Undefined
  /\ readme = Undefined
  /\ files = << >>
  /\ ctxError = Undefined
  /\ structure = Undefined
  /\ items = << >>
  /\ relevantFiles = << >>
  /\ scoredFiles = << >>
  /\ idx = 1
  /\ log = << >>
  /\ outage = 0
  /\ repoFiles = [p \in RepoPaths |-> Unknown]
  /\ prompt = Undefined
  /\ llmCalls = 0
  /\ result = Undefined
  /\ apiResponse = Undefined
  /\ legacy = Undefined
  /\ thrown = Undefined

\* processQuery: const llm = createLLM(context.llmConfig), whose throw the catch handles
CreateLLM ==
  /\ pc = "processQuery"
  /\ LET made == createLLM(ctx.provider)
     IN IF IsDefined(made.error)
        THEN /\ result' = Some(caught(made.error[1].message))
             /\ pc' = "done"
             /\ llm' = llm
        ELSE /\ llm' = made.result
             /\ pc' = "readme"
             /\ result' = result
  /\ UNCHANGED others
  /\ UNCHANGED << ctx, thrown, readme, files, ctxError, structure, items, relevantFiles,
                  scoredFiles, idx, log, outage, repoFiles, apiResponse, prompt, llmCalls, legacy >>

\* getRepositoryContext: the README fetch
FetchReadme ==
  /\ pc = "readme"
  /\ \E http \in Asked(ContentsAnswers(P_README), Absent) :
       LET readmeResult == getFileContents(callGitHubAPI(ctx.githubToken, http))
       IN /\ readme' = IF IsDefined(readmeResult.error)
                       THEN Undefined
                       ELSE Some(readmeResult.result[1].content)
          /\ Call("readme", "contents", P_README, http)
  /\ pc' = "search"
  /\ UNCHANGED others
  /\ UNCHANGED << ctx, thrown, llm, files, ctxError, structure, items, relevantFiles,
                  scoredFiles, idx, prompt, llmCalls, result, legacy >>

\* getRelevantCodeContext: searchCode, the early return on its error, the slice
SearchCode ==
  /\ pc = "search"
  /\ \E http \in Asked(SearchAnswers, << >>) :
       LET searchResult == callGitHubAPI(ctx.githubToken, http)
       IN /\ Call("search", "search", ctx.query, http)
          /\ IF IsDefined(searchResult.error)
             THEN /\ ctxError' = Some(searchResult.error[1].message)
                  /\ items' = items
                  /\ relevantFiles' = relevantFiles
                  /\ pc' = "tree"
             ELSE /\ ctxError' = ctxError
                  /\ items' = searchResult.result[1]
                  /\ relevantFiles' = slice(searchResult.result[1], SearchLimit)
                  /\ pc' = IF Len(searchResult.result[1]) = 0 THEN "common" ELSE "hits"
  /\ files' = << >>
  /\ idx' = 1
  /\ UNCHANGED others
  /\ UNCHANGED << ctx, thrown, llm, readme, structure, scoredFiles, prompt, llmCalls, result, legacy >>

\* a faulty loop over relevantFiles that stops at the first failed fetch
FetchHit_Aborting ==
  /\ pc = "hits"
  /\ \E http \in Asked(ContentsAnswers(relevantFiles[idx].path), Absent) :
       LET item == relevantFiles[idx]
           fileResult == getFileContents(callGitHubAPI(ctx.githubToken, http))
           pushed == Pushed(files, item.path, fileResult,
                            << "Search match - Score: ", item.score >>)
       IN /\ files' = pushed
          /\ Call("search", "contents", item.path, http)
          /\ IF idx < Len(relevantFiles) /\ ~IsDefined(fileResult.error)
             THEN /\ idx' = idx + 1
                  /\ pc' = "hits"
             ELSE /\ idx' = 1
                  /\ pc' = IF Len(pushed) = 0 THEN "common" ELSE "tree"
  /\ UNCHANGED others
  /\ UNCHANGED << ctx, thrown, llm, readme, ctxError, structure, items, relevantFiles,
                  scoredFiles, prompt, llmCalls, result, legacy >>

\* getRelevantCodeContext: one round of the loop over relevantFiles
FetchHit ==
  /\ pc = "hits"
  /\ \E http \in Asked(ContentsAnswers(relevantFiles[idx].path), Absent) :
       LET item == relevantFiles[idx]
           fileResult == getFileContents(callGitHubAPI(ctx.githubToken, http))
           pushed == Pushed(files, item.path, fileResult,
                            << "Search match - Score: ", item.score >>)
       IN /\ files' = pushed
          /\ Call("search", "contents", item.path, http)
          /\ IF idx < Len(relevantFiles)
             THEN /\ idx' = idx + 1
                  /\ pc' = "hits"
             ELSE /\ idx' = 1
                  /\ pc' = IF Len(pushed) = 0 THEN "common" ELSE "tree"
  /\ UNCHANGED others
  /\ UNCHANGED << ctx, thrown, llm, readme, ctxError, structure, items, relevantFiles,
                  scoredFiles, prompt, llmCalls, result, legacy >>

\* a faulty loop over commonFiles that never breaks
FetchCommon_NoBreak ==
  /\ pc = "common"
  /\ \E http \in Asked(ContentsAnswers(commonFiles[idx]), Absent) :
       LET filePath == commonFiles[idx]
           fileResult == getFileContents(callGitHubAPI(ctx.githubToken, http))
       IN /\ files' = Pushed(files, filePath, fileResult, << "Common project file" >>)
          /\ Call("common", "contents", filePath, http)
  /\ IF idx = Len(commonFiles)
     THEN /\ idx' = 1
          /\ pc' = "tree"
     ELSE /\ idx' = idx + 1
          /\ pc' = "common"
  /\ UNCHANGED others
  /\ UNCHANGED << ctx, thrown, llm, readme, ctxError, structure, items, relevantFiles,
                  scoredFiles, prompt, llmCalls, result, legacy >>

\* getRelevantCodeContext: one round of the loop over commonFiles, with its break
FetchCommon ==
  /\ pc = "common"
  /\ \E http \in Asked(ContentsAnswers(commonFiles[idx]), Absent) :
       LET filePath == commonFiles[idx]
           fileResult == getFileContents(callGitHubAPI(ctx.githubToken, http))
           pushed == Pushed(files, filePath, fileResult, << "Common project file" >>)
       IN /\ files' = pushed
          /\ Call("common", "contents", filePath, http)
          /\ IF \/ (Len(pushed) > Len(files) /\ Len(pushed) >= CommonLimit)
                \/ idx = Len(commonFiles)
             THEN /\ idx' = 1
                  /\ pc' = "tree"
             ELSE /\ idx' = idx + 1
                  /\ pc' = "common"
  /\ UNCHANGED others
  /\ UNCHANGED << ctx, thrown, llm, readme, ctxError, structure, items, relevantFiles,
                  scoredFiles, prompt, llmCalls, result, legacy >>

\* a faulty getRepositoryContext that asks for the tree only when it has fewer than
\* EnrichBelow files
FetchTree_WhenFew ==
  /\ pc = "tree"
  /\ IF Len(files) >= EnrichBelow
     THEN /\ structure' = Undefined
          /\ scoredFiles' = << >>
          /\ pc' = "return"
          /\ UNCHANGED << log, outage, repoFiles, apiResponse >>
     ELSE \E http \in Asked(TreeAnswers, << >>) :
            LET structureResult == callGitHubAPI(ctx.githubToken, http)
                fetched == IF IsDefined(structureResult.error)
                           THEN Undefined
                           ELSE Some([tree |-> structureResult.result[1]])
                chosen == IF IsDefined(fetched)
                          THEN scored(ctx.query, fetched[1].tree, pathsOf(files))
                          ELSE << >>
            IN /\ structure' = fetched
               /\ Call("tree", "tree", << "m", "a", "i", "n" >>, http)
               /\ scoredFiles' = chosen
               /\ pc' = IF Len(chosen) = 0 THEN "return" ELSE "additional"
  /\ idx' = 1
  /\ UNCHANGED others
  /\ UNCHANGED << ctx, thrown, llm, readme, files, ctxError, items, relevantFiles,
                  prompt, llmCalls, result, legacy >>

\* getRepositoryContext: getRepositoryTree, then the choice of the files still to fetch
FetchTree ==
  /\ pc = "tree"
  /\ \E http \in Asked(TreeAnswers, << >>) :
       LET structureResult == callGitHubAPI(ctx.githubToken, http)
           fetched == IF IsDefined(structureResult.error)
                      THEN Undefined
                      ELSE Some([tree |-> structureResult.result[1]])
           chosen == IF Len(files) < EnrichBelow /\ IsDefined(fetched)
                     THEN scored(ctx.query, fetched[1].tree, pathsOf(files))
                     ELSE << >>
       IN /\ structure' = fetched
          /\ Call("tree", "tree", << "m", "a", "i", "n" >>, http)
          /\ scoredFiles' = chosen
          /\ pc' = IF Len(chosen) = 0 THEN "return" ELSE "additional"
  /\ idx' = 1
  /\ UNCHANGED others
  /\ UNCHANGED << ctx, thrown, llm, readme, files, ctxError, items, relevantFiles,
                  prompt, llmCalls, result, legacy >>

\* getAdditionalRelevantFiles: one round of the loop over scoredFiles
FetchAdditional ==
  /\ pc = "additional"
  /\ \E http \in Asked(ContentsAnswers(scoredFiles[idx].path), Absent) :
       LET item == scoredFiles[idx]
           fileResult == getFileContents(callGitHubAPI(ctx.githubToken, http))
       IN /\ files' = Pushed(files, item.path, fileResult,
                             << "Structure analysis - Score: ", item.score >>)
          /\ Call("additional", "contents", item.path, http)
  /\ IF idx < Len(scoredFiles)
     THEN /\ idx' = idx + 1
          /\ pc' = "additional"
     ELSE /\ idx' = 1
          /\ pc' = "return"
  /\ UNCHANGED others
  /\ UNCHANGED << ctx, thrown, llm, readme, ctxError, structure, items, relevantFiles,
                  scoredFiles, prompt, llmCalls, result, legacy >>

\* a faulty processQuery that goes on to the LLM whatever getRepositoryContext reported
ReturnContext_IgnoringError ==
  /\ pc = "return"
  /\ result' = result
  /\ pc' = "generate"
  /\ UNCHANGED others
  /\ UNCHANGED << ctx, thrown, llm, readme, files, ctxError, structure, items, relevantFiles,
                  scoredFiles, idx, log, outage, repoFiles, apiResponse, prompt, llmCalls, legacy >>

\* processQuery: if (repositoryContext.error) return { success: false, ... }
ReturnContext ==
  /\ pc = "return"
  /\ IF IsDefined(repositoryContext.error)
     THEN /\ result' = Some(Failure(<< "Failed to fetch repository data: " >>
                                    \o repositoryContext.error[1]))
          /\ pc' = "done"
     ELSE /\ result' = result
          /\ pc' = "generate"
  /\ UNCHANGED others
  /\ UNCHANGED << ctx, thrown, llm, readme, files, ctxError, structure, items, relevantFiles,
                  scoredFiles, idx, log, outage, repoFiles, apiResponse, prompt, llmCalls, legacy >>

\* a faulty processQuery that lets the error of llm.invoke escape
GenerateResponse_Uncaught ==
  /\ pc = "generate"
  /\ prompt' = Some(systemPrompt(ctx.repository, repositoryContext))
  /\ llmCalls' = llmCalls + 1
  /\ \E reply \in { Ok(a) : a \in LLMAnswers } \cup { Err(0, e) : e \in LLMErrors } :
       /\ thrown' = IF IsDefined(reply.error) THEN Some(reply.error[1].message) ELSE Undefined
       /\ result' = IF IsDefined(reply.error)
                 THEN Undefined
                 ELSE Some(Success(generated(ctx.repository, repositoryContext,
                                             reply.result[1])))
  /\ pc' = "done"
  /\ UNCHANGED others
  /\ UNCHANGED << ctx, llm, readme, files, ctxError, structure, items, relevantFiles,
                  scoredFiles, idx, log, outage, repoFiles, apiResponse, legacy >>

\* generateResponseWithContext: the prompt, llm.invoke, the result or the catch
GenerateResponse ==
  /\ pc = "generate"
  /\ prompt' = Some(systemPrompt(ctx.repository, repositoryContext))
  /\ llmCalls' = llmCalls + 1
  /\ \E reply \in { Ok(a) : a \in LLMAnswers } \cup { Err(0, e) : e \in LLMErrors } :
       /\ thrown' = IF IsDefined(reply.error) THEN Some(reply.error[1].message) ELSE Undefined
       /\ result' = IF IsDefined(reply.error)
                 THEN Some(caught(reply.error[1].message))
                 ELSE Some(Success(generated(ctx.repository, repositoryContext,
                                             reply.result[1])))
  /\ pc' = "done"
  /\ UNCHANGED others
  /\ UNCHANGED << ctx, llm, readme, files, ctxError, structure, items, relevantFiles,
                  scoredFiles, idx, log, outage, repoFiles, apiResponse, legacy >>

\* the tool-planning variant (middleware.ts): generateResponse's post-processing of
\* the repository data its tools gathered
LegacyGenerateResponse ==
  /\ pc = "processQuery"
  /\ \E data \in LegacyData(ctx.repository) : \E answer \in LLMAnswers :
       legacy' = Some(legacyGenerated(ctx.repository, data, answer))
  /\ pc' = "done"
  /\ UNCHANGED others
  /\ UNCHANGED << ctx, thrown, llm, readme, files, ctxError, structure, items, relevantFiles,
                  scoredFiles, idx, log, outage, repoFiles, apiResponse, prompt, llmCalls, result >>

Next ==
  \/ CreateLLM
  \/ LegacyGenerateResponse
  \/ FetchReadme
  \/ SearchCode
  \/ FetchHit
  \/ FetchCommon
  \/ FetchTree
  \/ FetchAdditional
  \/ ReturnContext
  \/ GenerateResponse

Spec == Init /\ [][Next]_vars

----------------------------------------------------------------------------
(* githubUtils: parseGitHubUrl and isValidGitHubUrl *)

Whitespace == { " ", "\t", "\n" }
Digits == { "0", "1", "2", "3", "4", "5", "6", "7", "8", "9" }
Alphanumerics == Range(UpperCase) \cup Range(LowerCase) \cup Digits

\* String.prototype.trim
trim(s) ==
  LET kept == { i \in 1..Len(s) : s[i] \notin Whitespace }
  IN IF kept = { } THEN << >>
     ELSE SubSeq(s, CHOOSE i \in kept : \A j \in kept : i <= j,
                    CHOOSE i \in kept : \A j \in kept : j <= i)

\* String.prototype.replace(/t$/, '') for a literal t
withoutSuffix(s, t) == IF endsWith(s, t) THEN SubSeq(s, 1, Len(s) - Len(t)) ELSE s

startsWith(s, t) == Len(t) <= Len(s) /\ SubSeq(s, 1, Len(t)) = t

\* String.prototype.indexOf for one character, counted from 1; 0 when absent
indexOf(s, c) ==
  IF \E i \in 1..Len(s) : s[i] = c
  THEN CHOOSE i \in 1..Len(s) : s[i] = c /\ \A j \in 1..(i - 1) : s[j] # c
  ELSE 0

SchemeHttps == << "h", "t", "t", "p", "s", ":", "/", "/" >>
SchemeHttp == << "h", "t", "t", "p", ":", "/", "/" >>
GitHubHost == << "g", "i", "t", "h", "u", "b", ".", "c", "o", "m", "/" >>

\* the match of ([^\/]+)\/([^\/]+) at the start of rest, which with toEnd has to
\* reach the end of rest (the $ of the short format)
ownerAndRepo(rest, toEnd) ==
  LET i == indexOf(rest, "/")
      after == SubSeq(rest, i + 1, Len(rest))
      j == indexOf(after, "/")
      name == IF j = 0 THEN after ELSE SubSeq(after, 1, j - 1)
  IN IF i > 1 /\ Len(name) > 0 /\ (toEnd => j = 0)
     THEN Some([owner |-> SubSeq(rest, 1, i - 1), repo |-> name])
     ELSE Undefined

InnerLimit == 37        \* [a-zA-Z0-9-]{0,37}

\* parseGitHubUrl: null is Undefined
parseGitHubUrl(text) ==
  IF text = << >> THEN Undefined
  ELSE LET cleanUrl == withoutSuffix(withoutSuffix(trim(text), << "/" >>),
                                     << ".", "g", "i", "t" >>)
       IN IF /\ startsWith(cleanUrl, SchemeHttps \o GitHubHost)
             /\ IsDefined(ownerAndRepo(SubSeq(cleanUrl, Len(SchemeHttps \o GitHubHost) + 1,
                                              Len(cleanUrl)), FALSE))
          THEN ownerAndRepo(SubSeq(cleanUrl, Len(SchemeHttps \o GitHubHost) + 1,
                                   Len(cleanUrl)), FALSE)
          ELSE IF /\ startsWith(cleanUrl, SchemeHttp \o GitHubHost)
                  /\ IsDefined(ownerAndRepo(SubSeq(cleanUrl, Len(SchemeHttp \o GitHubHost) + 1,
                                                   Len(cleanUrl)), FALSE))
          THEN ownerAndRepo(SubSeq(cleanUrl, Len(SchemeHttp \o GitHubHost) + 1,
                                   Len(cleanUrl)), FALSE)
          ELSE IF /\ startsWith(cleanUrl, GitHubHost)
                  /\ IsDefined(ownerAndRepo(SubSeq(cleanUrl, Len(GitHubHost) + 1,
                                                   Len(cleanUrl)), FALSE))
          THEN ownerAndRepo(SubSeq(cleanUrl, Len(GitHubHost) + 1, Len(cleanUrl)), FALSE)
          ELSE ownerAndRepo(cleanUrl, TRUE)

\* /^[a-zA-Z0-9]([a-zA-Z0-9-]{0,37}[a-zA-Z0-9])?$/.test(name)
validName(name) ==
  /\ Len(name) >= 1
  /\ name[1] \in Alphanumerics
  /\ Len(name) > 1 =>
       /\ Len(name) - 2 <= InnerLimit
       /\ \A i \in 2..(Len(name) - 1) : name[i] \in Alphanumerics \cup { "-" }
       /\ name[Len(name)] \in Alphanumerics

isValidGitHubUrl(text) ==
  /\ text # << >>
  /\ IsDefined(parseGitHubUrl(text))
  /\ validName(parseGitHubUrl(text)[1].owner)
  /\ validName(parseGitHubUrl(text)[1].repo)

\* the names and the texts explored
Repeated(c, n) == [i \in 1..n |-> c]
LongestName == 39       \* the longest name explored is one character longer
Names ==
  { << "o", "c", "t", "o" >>, << "w", "i", "k", "i" >>, << "a" >>, << "a", "-", "b" >>,
    << "a", "-", "-", "b" >>, << "-", "a" >>, << "a", "-" >>, << "-" >>,
    << "n", "e", "x", "t", ".", "j", "s" >>, << "A", "9" >>,
    Repeated("a", LongestName), Repeated("a", LongestName + 1),
    << "a" >> \o Repeated("-", LongestName - 2) \o << "a" >> }
Prefixes == { << >>, SchemeHttps \o GitHubHost, SchemeHttp \o GitHubHost, GitHubHost, << " " >> }
Suffixes == { << >>, << "/" >>, << ".", "g", "i", "t" >>,
              << "/", "t", "r", "e", "e", "/", "m", "a", "i", "n" >> }
Urls ==
  { p \o o \o << "/" >> \o r \o x : p \in Prefixes, o \in Names, r \in Names, x \in Suffixes }
    \cup { p \o o : p \in Prefixes, o \in Names } \cup { << >>, << "/" >>, << " " >> }

UrlInit ==
  /\ url \in { Some(u) : u \in Urls }
  /\ valid = Undefined
  /\ parsed = Undefined
  /\ RouteIdle
  /\ SetupIdle
  /\ ThreadsIdle
  /\ ChatIdle
  /\ PipelineIdle

\* a call of isValidGitHubUrl, and of parseGitHubUrl with the same text
ValidateUrl ==
  /\ IsDefined(url)
  /\ valid = Undefined
  /\ valid' = Some(isValidGitHubUrl(url[1]))
  /\ parsed' = Some(parseGitHubUrl(url[1]))
  /\ UNCHANGED << url, routeVars, setupVars, threadVars, chatVars >>
  /\ UNCHANGED pipeline

UrlNext == ValidateUrl

UrlSpec == UrlInit /\ [][UrlNext]_vars

----------------------------------------------------------------------------
(* encryption: what the llm-config cookie holds of the API key *)

\* encryptApiKey: iv ':' authTag ':' encrypted, here as the three parts; the tag of
\* AES-GCM authenticates the encrypted key
encryptApiKey(apiKey) == << "iv", << "tag", apiKey >>, << "enc", apiKey >> >>

\* decryptApiKey of a cookie's encryptedApiKey (optional): the key, or a throw
decryptApiKey(encryptedData) ==
  IF ~IsDefined(encryptedData) THEN Err(0, << "Failed to decrypt API key" >>)
  ELSE LET parts == encryptedData[1]
       IN IF Len(parts) # 3 THEN Err(0, << "Failed to decrypt API key" >>)
          ELSE IF parts[2] # << "tag", parts[3][2] >>
          THEN Err(0, << "Failed to decrypt API key" >>)
          ELSE Ok(parts[3][2])

----------------------------------------------------------------------------
(* route.ts: POST /api/query *)

\* a faulty session check that asks for the user only
authenticated_UserOnly(session) == IsDefined(session) /\ session[1].user

\* !(!session?.user || !session.accessToken)
authenticated(session) ==
  /\ IsDefined(session)
  /\ session[1].user
  /\ session[1].accessToken # ""

NextResponse(status, body) ==
  [ status |-> status, body |-> Some(body), chunks |-> << >>, closed |-> TRUE ]
\* new Response(stream), whose start callback has yet to enqueue and close
StreamResponse ==
  [ status |-> 200, body |-> Undefined, chunks |-> << >>, closed |-> FALSE ]
ErrorBody(message) ==
  [ error |-> Some(message), response |-> Undefined, sources |-> Undefined,
    codeReferences |-> Undefined ]

\* the payloads of the stream's data: events
TokenEvent(token) ==
  [ token |-> Some(token), error |-> Undefined, done |-> Undefined, sources |-> Undefined,
    codeReferences |-> Undefined ]
ErrorEvent(message) ==
  [ token |-> Undefined, error |-> Some(message), done |-> Undefined, sources |-> Undefined,
    codeReferences |-> Undefined ]
DoneEvent(sources, codeReferences) ==
  [ token |-> Undefined, error |-> Undefined, done |-> Some(TRUE), sources |-> Some(sources),
    codeReferences |-> Some(codeReferences) ]

\* x || fallback for an optional text or list
orElse(x, fallback) == IF IsDefined(x) /\ x[1] # << >> THEN x[1] ELSE fallback

\* the QueryResponse of the non-streaming branch
queryResponse(queryResult) ==
  [ error |-> Undefined,
    response |-> Some(orElse(queryResult.response, << "No response generated" >>)),
    sources |-> Some(orElse(queryResult.sources, << >>)),
    codeReferences |-> Some(orElse(queryResult.codeReferences, << >>)) ]

\* the requests explored
U_OCTO_WIKI == << "o", "c", "t", "o", "/", "w", "i", "k", "i" >>
U_OCTO == << "o", "c", "t", "o" >>
Sessions ==
  { Undefined, Some([user |-> FALSE, accessToken |-> "gho_token"]),
    Some([user |-> TRUE, accessToken |-> ""]), Some([user |-> TRUE, accessToken |-> "gho_token"]) }
\* a body that is not JSON is Undefined
Bodies ==
  { Undefined } \cup
  { Some([repositoryUrl |-> u, query |-> q]) :
      u \in { << >>, U_OCTO, U_OCTO_WIKI }, q \in { << >>, Q_AUTH } }
\* a cookie value: whether it is JSON, and the provider and encryptedApiKey it then holds
Cookies ==
  { Undefined,
    Some([json |-> FALSE, provider |-> "openai", encryptedApiKey |-> Undefined]),
    Some([json |-> TRUE, provider |-> "openai", encryptedApiKey |-> Undefined]),
    Some([json |-> TRUE, provider |-> "openai", encryptedApiKey |-> Some(<< "iv", "tag" >>)]),
    Some([json |-> TRUE, provider |-> "openai",
          encryptedApiKey |-> Some(<< "iv", << "tag", "sk-other" >>, << "enc", "sk-key" >> >>)]),
    Some([json |-> TRUE, provider |-> "openai",
          encryptedApiKey |-> Some(encryptApiKey("sk-key"))]),
    Some([json |-> TRUE, provider |-> "cohere",
          encryptedApiKey |-> Some(encryptApiKey("sk-key"))]) }
Accepts == { "text/stream", "application/json" }
RouteRequests ==
  [ session : Sessions, body : Bodies, cookie : Cookies, accept : Accepts ]

RouteInit ==
  /\ request \in { Some(r) : r \in RouteRequests }
  /\ routeResponse = Undefined
  /\ UrlIdle
  /\ SetupIdle
  /\ ThreadsIdle
  /\ ChatIdle
  /\ PipelineIdle

\* POST up to the call of processQuery: the answer of a request it turns down, or the
\* QueryContext; streaming and onToken are handed over too, and processQuery reads neither
POST ==
  /\ pc = "idle"
  /\ IsDefined(request)
  /\ routeResponse = Undefined
  /\ LET session == request[1].session
         body == request[1].body
         llmConfigCookie == request[1].cookie
         turnedDown ==
           IF ~authenticated(session)
           THEN Some(NextResponse(401, ErrorBody(<< "Authentication required" >>)))
           ELSE IF ~IsDefined(body)
           THEN Some(NextResponse(500, ErrorBody(<< "Internal server error" >>)))
           ELSE IF body[1].repositoryUrl = << >> \/ body[1].query = << >>
           THEN Some(NextResponse(400, ErrorBody(<< "Repository URL and query are required" >>)))
           ELSE IF ~IsDefined(parseGitHubUrl(body[1].repositoryUrl))
           THEN Some(NextResponse(400, ErrorBody(<< "Invalid GitHub repository URL" >>)))
           ELSE IF ~IsDefined(llmConfigCookie)
           THEN Some(NextResponse(400, ErrorBody(
                  << "LLM configuration required. Please configure your AI provider first." >>)))
           ELSE IF \/ ~llmConfigCookie[1].json
                   \/ IsDefined(decryptApiKey(llmConfigCookie[1].encryptedApiKey).error)
           THEN Some(NextResponse(400, ErrorBody(
                  << "Invalid LLM configuration. Please reconfigure your AI provider." >>)))
           ELSE Undefined
     IN IF IsDefined(turnedDown)
        THEN /\ routeResponse' = turnedDown
             /\ UNCHANGED << ctx, pc >>
        ELSE /\ ctx' = [ repository |-> parseGitHubUrl(body[1].repositoryUrl)[1],
                         query |-> body[1].query,
                         githubToken |-> session[1].accessToken,
                         provider |-> llmConfigCookie[1].provider ]
             /\ pc' = "processQuery"
             /\ routeResponse' = IF request[1].accept = "text/stream"
                                 THEN Some(StreamResponse)
                                 ELSE Undefined
  /\ UNCHANGED << request, urlVars, setupVars, threadVars, chatVars >>
  /\ UNCHANGED << llm, readme, files, ctxError, structure, items, relevantFiles,
                  scoredFiles, idx, log, outage, repoFiles, apiResponse, prompt, llmCalls,
                  result, legacy, thrown >>

\* the stream's start callback once processQuery has returned: no token was handed to
\* onToken; one error event or the final event is enqueued and the stream closed
StreamResult ==
  /\ pc = "done"
  /\ IsDefined(result)
  /\ IsDefined(routeResponse)
  /\ ~routeResponse[1].closed
  /\ routeResponse' =
       Some([ routeResponse[1] EXCEPT
                !.chunks = Append(@, IF ~result[1].success
                                     THEN ErrorEvent(result[1].error[1])
                                     ELSE DoneEvent(orElse(result[1].sources, << >>),
                                                    orElse(result[1].codeReferences, << >>))),
                !.closed = TRUE ])
  /\ UNCHANGED << request, urlVars, setupVars, threadVars, chatVars >>
  /\ UNCHANGED pipeline

\* the non-streaming branch once processQuery has returned
JsonResult ==
  /\ pc = "done"
  /\ IsDefined(result)
  /\ IsDefined(request)
  /\ routeResponse = Undefined
  /\ routeResponse' = IF ~result[1].success
                      THEN Some(NextResponse(500, ErrorBody(result[1].error[1])))
                      ELSE Some(NextResponse(200, queryResponse(result[1])))
  /\ UNCHANGED << request, urlVars, setupVars, threadVars, chatVars >>
  /\ UNCHANGED pipeline

RouteNext ==
  \/ POST
  \/ CreateLLM
  \/ FetchReadme
  \/ SearchCode
  \/ FetchHit
  \/ FetchCommon
  \/ FetchTree
  \/ FetchAdditional
  \/ ReturnContext
  \/ GenerateResponse
  \/ StreamResult
  \/ JsonResult

RouteSpec == RouteInit /\ [][RouteNext]_vars

----------------------------------------------------------------------------
(* /api/llm-setup and /api/llm-switch: the llm-config cookie *)

\* PROVIDER_CONFIGS[provider].models and .defaultModel
providerModels(provider) ==
  IF provider = "openai" THEN { "gpt-4", "gpt-4-turbo", "gpt-3.5-turbo" }
  ELSE IF provider = "anthropic"
  THEN { "claude-3-opus-20240229", "claude-3-sonnet-20240229", "claude-3-haiku-20240307" }
  ELSE { }
getDefaultModel(provider) ==
  IF provider = "openai" THEN "gpt-4"
  ELSE IF provider = "anthropic" THEN "claude-3-sonnet-20240229"
  ELSE "openai/gpt-4"
OpenRouterUrl == "https://openrouter.ai/api/v1"

\* validateApiKeyFormat: no provider has an apiKeyPattern
validateApiKeyFormat(provider, apiKey) == TRUE

\* the keys explored, each issued by one provider; validateApiKey answers true only for
\* a key of the provider asked, and false for it too when the test request fails
ApiKeys == { "sk-openai", "sk-ant", "sk-or" }
Issued(provider, apiKey) ==
  \/ provider = "openai" /\ apiKey = "sk-openai"
  \/ provider = "anthropic" /\ apiKey = "sk-ant"
  \/ provider = "openrouter" /\ apiKey = "sk-or"
validateApiKey(provider, apiKey) ==
  IF Issued(provider, apiKey) THEN { TRUE, FALSE } ELSE { FALSE }

\* the model a request names (optional)
RequestedModels == { Undefined, Some("gpt-4"), Some("claude-3-opus-20240229") }

SetupInit ==
  /\ SetupIdle
  /\ ThreadsIdle
  /\ ChatIdle
  /\ RouteIdle
  /\ UrlIdle
  /\ PipelineIdle

\* POST /api/llm-setup
SetupPOST ==
  /\ \E user \in BOOLEAN, provider \in Providers, apiKey \in ApiKeys,
        model \in RequestedModels, baseUrl \in { Undefined } :
       IF ~user
       THEN /\ setupResponse' = 401
            /\ UNCHANGED << cookieJar, validatedKeys >>
       ELSE IF provider \notin SupportedProviders
       THEN /\ setupResponse' = 400
            /\ UNCHANGED << cookieJar, validatedKeys >>
       ELSE IF ~validateApiKeyFormat(provider, apiKey)
       THEN /\ setupResponse' = 200
            /\ UNCHANGED << cookieJar, validatedKeys >>
       ELSE \E keyValid \in validateApiKey(provider, apiKey) :
              IF ~keyValid
              THEN /\ setupResponse' = 200
                   /\ UNCHANGED << cookieJar, validatedKeys >>
              ELSE /\ cookieJar' = Some([ provider |-> provider,
                                          encryptedApiKey |-> Some(encryptApiKey(apiKey)),
                                          model |-> IF IsDefined(model) THEN model
                                                    ELSE Some(getDefaultModel(provider)),
                                          baseUrl |-> IF provider = "openrouter"
                                                      THEN Some(OpenRouterUrl) ELSE baseUrl ])
                   /\ validatedKeys' = validatedKeys \cup { << provider, apiKey >> }
                   /\ setupResponse' = 200
  /\ UNCHANGED << routeVars, urlVars, threadVars, chatVars >>
  /\ UNCHANGED pipeline

\* POST /api/llm-switch, with the cookie the browser holds, which is JSON as
\* /api/llm-setup wrote it; the model of a request that names none is undefined, a
\* member JSON.stringify leaves out
SwitchPOST ==
  /\ \E user \in BOOLEAN, provider \in Providers, model \in RequestedModels :
       IF ~user
       THEN /\ setupResponse' = 401
            /\ UNCHANGED cookieJar
       ELSE IF provider \notin SupportedProviders
       THEN /\ setupResponse' = 400
            /\ UNCHANGED cookieJar
       ELSE IF provider # "openrouter"
               /\ (~IsDefined(model) \/ model[1] \notin providerModels(provider))
       THEN /\ setupResponse' = 400
            /\ UNCHANGED cookieJar
       ELSE IF ~IsDefined(cookieJar)
       THEN /\ setupResponse' = 400
            /\ UNCHANGED cookieJar
       ELSE /\ cookieJar' = Some([ cookieJar[1] EXCEPT
                                     !.provider = provider,
                                     !.model = model,
                                     !.baseUrl = IF provider = "openrouter"
                                                 THEN Some(OpenRouterUrl) ELSE @ ])
            /\ setupResponse' = 200
  /\ UNCHANGED << validatedKeys, routeVars, urlVars, threadVars, chatVars >>
  /\ UNCHANGED pipeline

SetupNext ==
  \/ SetupPOST
  \/ SwitchPOST

SetupSpec == SetupInit /\ [][SetupNext]_vars

----------------------------------------------------------------------------
(* ChatInterface: the thread list and its copy in localStorage *)

MaxNow == 3             \* the clock is read at most up to this time
MaxThreads == 2         \* the thread list never grows longer

\* the times at which a handler may run: Date.now() never goes back
Times == { t \in { now, now + 1 } : t <= MaxNow }

\* what ChatWindow hands to onUpdateThread: the members it names
ThreadUpdates ==
  { [ title |-> Some("Chat about octo/wiki"), repository |-> Some("octo/wiki"),
      lastMessage |-> Undefined ],
    [ title |-> Undefined, repository |-> Undefined, lastMessage |-> Some("auth") ] }

threadIds == { threads[i].id : i \in 1..Len(threads) }

\* useEffect(..., [threads]): if (threads.length > 0) localStorage.setItem('chat-threads', ...),
\* after a render with the thread list list
savedThreads(list) == IF Len(list) > 0 THEN Some(list) ELSE chatThreads

ThreadInit ==
  /\ ThreadsIdle
  /\ ChatIdle
  /\ SetupIdle
  /\ RouteIdle
  /\ UrlIdle
  /\ PipelineIdle

\* the page is loaded: the threads of localStorage become the thread list; JSON keeps
\* every member of a thread, its dates as texts that new Date reads back
Mount ==
  /\ threads' = IF IsDefined(chatThreads) THEN chatThreads[1] ELSE << >>
  /\ activeThreadId' = Undefined
  /\ chatThreads' = chatThreads
  /\ now' = now
  /\ UNCHANGED << routeVars, urlVars, setupVars, chatVars >>
  /\ UNCHANGED pipeline

createNewThread ==
  /\ Len(threads) < MaxThreads
  /\ \E t \in Times :
       LET newThread == [ id |-> << "thread-", t >>, title |-> "New Conversation",
                          repository |-> Undefined, lastMessage |-> Undefined,
                          createdAt |-> t, updatedAt |-> t ]
       IN /\ threads' = << newThread >> \o threads
          /\ activeThreadId' = Some(newThread.id)
          /\ chatThreads' = savedThreads(<< newThread >> \o threads)
          /\ now' = t
  /\ UNCHANGED << routeVars, urlVars, setupVars, chatVars >>
  /\ UNCHANGED pipeline

\* onSelectThread={setActiveThreadId}
setActiveThreadId ==
  /\ \E id \in threadIds :
       /\ activeThreadId # Some(id)
       /\ activeThreadId' = Some(id)
  /\ UNCHANGED << threads, chatThreads, now >>
  /\ UNCHANGED << routeVars, urlVars, setupVars, chatVars >>
  /\ UNCHANGED pipeline

\* prev.map(thread => thread.id === threadId ? { ...thread, ...updates, updatedAt } : thread)
withUpdates(threadId, updates, t) ==
  [i \in 1..Len(threads) |->
    IF threads[i].id = threadId
    THEN [ threads[i] EXCEPT
             !.title = IF IsDefined(updates.title) THEN updates.title[1] ELSE @,
             !.repository = IF IsDefined(updates.repository) THEN updates.repository ELSE @,
             !.lastMessage = IF IsDefined(updates.lastMessage) THEN updates.lastMessage ELSE @,
             !.updatedAt = t ]
    ELSE threads[i]]

\* updateThread(activeThread.id, updates), as ChatWindow calls it
updateThread ==
  /\ IsDefined(activeThreadId)
  /\ \E t \in Times, updates \in ThreadUpdates :
       /\ threads' = withUpdates(activeThreadId[1], updates, t)
       /\ chatThreads' = savedThreads(withUpdates(activeThreadId[1], updates, t))
       /\ now' = t
  /\ UNCHANGED activeThreadId
  /\ UNCHANGED << routeVars, urlVars, setupVars, chatVars >>
  /\ UNCHANGED pipeline

deleteThread ==
  /\ \E threadId \in threadIds :
       LET kept == SelectSeq(threads, LAMBDA thread : thread.id # threadId)
       IN /\ threads' = kept
          /\ activeThreadId' = IF activeThreadId = Some(threadId) THEN Undefined
                               ELSE activeThreadId
          /\ chatThreads' = savedThreads(kept)
  /\ UNCHANGED now
  /\ UNCHANGED << routeVars, urlVars, setupVars, chatVars >>
  /\ UNCHANGED pipeline

ThreadNext ==
  \/ Mount
  \/ createNewThread
  \/ setActiveThreadId
  \/ updateThread
  \/ deleteThread

ThreadSpec == ThreadInit /\ [][ThreadNext]_vars

----------------------------------------------------------------------------
(* ChatWindow.tsx: the chat window of the thread shown, with llmConfigured true *)

MaxChatNow == 8         \* no handler reads the clock after this time

T_WIKI == << "thread-", 1 >>
T_NEW == << "thread-", 2 >>
FullName == "octo/wiki"

\* a Message; thread is the id of the thread prop the handler that made it ran with,
\* which the code does not keep
Message(id, role, content, repository, threadId) ==
  [ id |-> << "msg-", id >>, role |-> role, content |-> content, repository |-> repository,
    isStreaming |-> Undefined, thread |-> threadId ]

RepositorySet ==
  << "Repository set to **", FullName,
     "**. Repository information loaded successfully! You can now ask questions about this repository." >>

\* the page was loaded after an earlier visit that made two threads and gave the
\* first one its repository, which left the message of handleRepositorySubmit stored
ChatThreads ==
  << [ id |-> T_NEW, title |-> "New Conversation", repository |-> Undefined,
       lastMessage |-> Undefined, createdAt |-> 2, updatedAt |-> 2 ],
     [ id |-> T_WIKI, title |-> "Chat about octo/wiki", repository |-> Some(FullName),
       lastMessage |-> Undefined, createdAt |-> 0, updatedAt |-> 1 ] >>

ChatInit ==
  /\ threads = ChatThreads
  /\ activeThreadId = Undefined
  /\ chatThreads = Some(ChatThreads)
  /\ now = 2
  /\ messages = << >>
  /\ input = << >>
  /\ isLoading = FALSE
  /\ isLoadingRepo = FALSE
  /\ messageStore = [id \in ChatThreadIds |->
                      IF id = T_WIKI
                      THEN Some(<< Message(1, "assistant", RepositorySet, Some(FullName), T_WIKI) >>)
                      ELSE Undefined]
  /\ inFlight = { }
  /\ pendingRepo = { }
  /\ SetupIdle
  /\ RouteIdle
  /\ UrlIdle
  /\ PipelineIdle

\* the thread prop of the chat window
activeThread ==
  threads[CHOOSE i \in 1..Len(threads) : threads[i].id = activeThreadId[1]]
ChatWindowShown ==
  /\ IsDefined(activeThreadId)
  /\ \E i \in 1..Len(threads) : threads[i].id = activeThreadId[1]

\* the time at which the next handler reads the clock, later than the ids given so far
Later == { t \in { now + 2 } : t <= MaxChatNow }

\* the save effect, useEffect(..., [messages, thread.id]), after a render with list
stored(store, threadId, list) ==
  IF Len(list) > 0 THEN [store EXCEPT ![threadId] = Some(list)] ELSE store

\* the load effect, useEffect(..., [thread.id, thread.repository]): what setMessages gets
loaded(threadId) == IF IsDefined(messageStore[threadId]) THEN messageStore[threadId][1] ELSE << >>

\* the effects after a render with list for the thread threadId. When the thread's id
\* or repository changed, the load effect reads the store and the save effect then
\* writes list; the render with the loaded messages runs the save effect again
Rendered(list, threadId, reload) ==
  IF reload
  THEN /\ messages' = loaded(threadId)
       /\ messageStore' = stored(stored(messageStore, threadId, list), threadId, loaded(threadId))
       /\ input' = << >>
       /\ isLoading' = FALSE
  ELSE /\ messages' = list
       /\ messageStore' = stored(messageStore, threadId, list)

\* onSelectThread: another thread is shown by the chat window, which keeps its state
SelectThread ==
  /\ \E id \in threadIds :
       /\ activeThreadId # Some(id)
       /\ activeThreadId' = Some(id)
       /\ Rendered(IF ChatWindowShown THEN messages ELSE << >>, id, TRUE)
  /\ isLoadingRepo' = FALSE
  /\ UNCHANGED << threads, chatThreads, now, inFlight, pendingRepo >>
  /\ UNCHANGED << routeVars, urlVars, setupVars >>
  /\ UNCHANGED pipeline

Inputs == { << >>, << " " >>, Q_AUTH }

\* setInput(e.target.value) of the textarea, which is disabled without a repository
TypeInput ==
  /\ ChatWindowShown
  /\ IsDefined(activeThread.repository)
  /\ \E text \in Inputs :
       /\ text # input
       /\ input' = text
  /\ UNCHANGED << messages, isLoading, isLoadingRepo, messageStore, inFlight, pendingRepo >>
  /\ UNCHANGED << routeVars, urlVars, setupVars, threadVars >>
  /\ UNCHANGED pipeline

\* handleSendMessage up to its fetch of /api/query
handleSendMessage ==
  IF trim(input) = << >>
  THEN UNCHANGED << threadVars, chatVars >>
  ELSE \E t \in Later :
         LET userMessage == Message(t, "user", trim(input), activeThread.repository,
                                    activeThread.id)
             updates == [ title |-> Undefined, repository |-> Undefined,
                          lastMessage |-> Some(trim(input)) ]
         IN /\ Rendered(Append(messages, userMessage), activeThread.id, FALSE)
            /\ input' = << >>
            /\ isLoading' = TRUE
            /\ threads' = withUpdates(activeThread.id, updates, t)
            /\ chatThreads' = savedThreads(withUpdates(activeThread.id, updates, t))
            /\ inFlight' = inFlight \cup { [ sent |-> t, thread |-> activeThread.id,
                                             repository |-> activeThread.repository,
                                             query |-> trim(input) ] }
            /\ now' = t
            /\ UNCHANGED << activeThreadId, isLoadingRepo, pendingRepo >>

\* the send button, disabled={!input.trim() || !thread.repository || !llmConfigured || isLoading}
ClickSend ==
  /\ ChatWindowShown
  /\ trim(input) # << >>
  /\ IsDefined(activeThread.repository)
  /\ ~isLoading
  /\ handleSendMessage
  /\ UNCHANGED << routeVars, urlVars, setupVars >>
  /\ UNCHANGED pipeline

\* handleKeyDown for Enter in the textarea, disabled={!thread.repository || !llmConfigured}
PressEnter ==
  /\ ChatWindowShown
  /\ IsDefined(activeThread.repository)
  /\ handleSendMessage
  /\ UNCHANGED << routeVars, urlVars, setupVars >>
  /\ UNCHANGED pipeline

\* what /api/query may answer: its status and the response or error of its body; a
\* failed fetch has the status NetworkCode
QueryAnswers ==
  { [ status |-> 200, text |-> << "The repository ..." >> ],
    [ status |-> 401, text |-> << "Authentication required" >> ],
    [ status |-> 400, text |-> << "Invalid GitHub repository URL" >> ],
    [ status |-> 500, text |-> << "Query processing failed" >> ],
    [ status |-> NetworkCode, text |-> << "Failed to fetch" >> ] }

\* the content of the assistant message handleSendMessage makes of an answer
answerContent(answer) ==
  IF answer.status = NetworkCode
  THEN << "**Network error**\n\nPlease check your internet connection and try again." >>
  ELSE IF answer.status = 401
  THEN << "**Authentication required**\n\nPlease sign in again to continue using the service." >>
  ELSE IF answer.status >= 500
  THEN << "**Server error**\n\nOur servers are experiencing issues. Please try again in a few minutes." >>
  ELSE answer.text

\* handleSendMessage from the answer of its fetch on: the assistant message is appended
\* to the messages of the window as it is now
QueryReply ==
  /\ \E sentRequest \in inFlight, answer \in QueryAnswers, t \in Later :
       LET assistantMessage == Message(t + 1, "assistant", answerContent(answer),
                                       sentRequest.repository, sentRequest.thread)
       IN /\ inFlight' = inFlight \ { sentRequest }
          /\ now' = t
          /\ IF ChatWindowShown
             THEN /\ Rendered(Append(messages, assistantMessage), activeThread.id, FALSE)
                  /\ isLoading' = FALSE
             ELSE UNCHANGED << messages, messageStore, isLoading >>
  /\ UNCHANGED << input, isLoadingRepo, pendingRepo, threads, activeThreadId, chatThreads >>
  /\ UNCHANGED << routeVars, urlVars, setupVars >>
  /\ UNCHANGED pipeline

\* handleRepositorySubmit up to its fetch of /api/repositories; RepositoryInput is shown
\* for a thread without a repository and is disabled while isLoadingRepo
SubmitRepository ==
  /\ ChatWindowShown
  /\ ~IsDefined(activeThread.repository)
  /\ ~isLoadingRepo
  /\ isValidGitHubUrl(U_OCTO_WIKI)
  /\ isLoadingRepo' = TRUE
  /\ pendingRepo' = pendingRepo \cup { [ thread |-> activeThread.id, url |-> U_OCTO_WIKI ] }
  /\ UNCHANGED << messages, input, isLoading, messageStore, inFlight >>
  /\ UNCHANGED << routeVars, urlVars, setupVars, threadVars >>
  /\ UNCHANGED pipeline

\* handleRepositorySubmit from the answer on: with response.ok the thread of the
\* submission gets its repository and the message is appended to the messages of the
\* window as it is now; a repository given to the thread shown runs the load effect
RepositoryReply ==
  /\ \E submitted \in pendingRepo, ok \in BOOLEAN, t \in Later :
       LET systemMessage == Message(t, "assistant", RepositorySet, Some(FullName),
                                    submitted.thread)
           updates == [ title |-> Some("Chat about octo/wiki"), repository |-> Some(FullName),
                        lastMessage |-> Undefined ]
       IN /\ pendingRepo' = pendingRepo \ { submitted }
          /\ IF ok
             THEN /\ threads' = withUpdates(submitted.thread, updates, t)
                  /\ chatThreads' = savedThreads(withUpdates(submitted.thread, updates, t))
                  /\ now' = t
                  /\ IF ~ChatWindowShown
                     THEN UNCHANGED << messages, messageStore, input, isLoading >>
                     ELSE IF activeThread.id = submitted.thread
                     THEN Rendered(Append(messages, systemMessage), activeThread.id, TRUE)
                     ELSE /\ Rendered(Append(messages, systemMessage), activeThread.id, FALSE)
                          /\ UNCHANGED << input, isLoading >>
             ELSE UNCHANGED << threads, chatThreads, now, messages, messageStore, input,
                               isLoading >>
  /\ isLoadingRepo' = FALSE
  /\ UNCHANGED << activeThreadId, inFlight >>
  /\ UNCHANGED << routeVars, urlVars, setupVars >>
  /\ UNCHANGED pipeline

handleClearHistory ==
  /\ ChatWindowShown
  /\ messages # << >>
  /\ messages' = << >>
  /\ messageStore' = [messageStore EXCEPT ![activeThread.id] = Undefined]
  /\ UNCHANGED << input, isLoading, isLoadingRepo, inFlight, pendingRepo >>
  /\ UNCHANGED << routeVars, urlVars, setupVars, threadVars >>
  /\ UNCHANGED pipeline

ChatNext ==
  \/ SelectThread
  \/ TypeInput
  \/ ClickSend
  \/ PressEnter
  \/ QueryReply
  \/ SubmitRepository
  \/ RepositoryReply
  \/ handleClearHistory

ChatSpec == ChatInit /\ [][ChatNext]_vars

----------------------------------------------------------------------------
(* The streaming ChatWindow: handleSendMessage reading the event stream of /api/query, *)
(* in a window whose user opens one thread with a repository and stays in it         *)

\* the first thread selection after the page was loaded
OpenThread ==
  /\ activeThreadId = Undefined
  /\ \E id \in threadIds :
       /\ \E i \in 1..Len(threads) : threads[i].id = id /\ IsDefined(threads[i].repository)
       /\ activeThreadId' = Some(id)
       /\ Rendered(<< >>, id, TRUE)
  /\ isLoadingRepo' = FALSE
  /\ UNCHANGED << threads, chatThreads, now, inFlight, pendingRepo >>
  /\ UNCHANGED << routeVars, urlVars, setupVars >>
  /\ UNCHANGED pipeline

\* what a response with a body may deliver before the stream ends: tokens and a done
\* event, the error event of the route's catch, or nothing
Streams ==
  { << TokenEvent("The "), TokenEvent("repository"), DoneEvent(<< >>, << >>) >>,
    << DoneEvent(<< >>, << >>) >>,
    << ErrorEvent("Query processing failed") >>,
    << >> }

\* the statuses of a response that is not ok
FailedStatuses == { 401, 500 }

\* prev.map(msg => msg.id === assistantMessageId ? { ...msg, ...changes } : msg)
withMessage(list, assistantMessageId, content, isStreaming) ==
  [i \in 1..Len(list) |->
    IF list[i].id = assistantMessageId
    THEN [ list[i] EXCEPT !.content = IF IsDefined(content) THEN content[1] ELSE @,
                          !.isStreaming = IF IsDefined(isStreaming) THEN isStreaming ELSE @ ]
    ELSE list[i]]

\* handleSendMessage up to its fetch: the user message and the placeholder of the answer
StreamSend ==
  /\ ChatWindowShown
  /\ IsDefined(activeThread.repository)
  /\ trim(input) # << >>
  /\ \E t \in Later :
       LET userMessage == Message(t, "user", trim(input), activeThread.repository,
                                  activeThread.id)
           assistantMessage == [ Message(t + 1, "assistant", << >>, activeThread.repository,
                                         activeThread.id)
                                 EXCEPT !.isStreaming = Some(TRUE) ]
           updates == [ title |-> Undefined, repository |-> Undefined,
                        lastMessage |-> Some(trim(input)) ]
       IN /\ Rendered(messages \o << userMessage, assistantMessage >>, activeThread.id, FALSE)
          /\ input' = << >>
          /\ isLoading' = TRUE
          /\ threads' = withUpdates(activeThread.id, updates, t)
          /\ chatThreads' = savedThreads(withUpdates(activeThread.id, updates, t))
          /\ inFlight' = inFlight \cup { [ assistantMessageId |-> assistantMessage.id,
                                           stage |-> "fetch", events |-> << >>,
                                           accumulatedContent |-> << >> ] }
          /\ now' = t
  /\ UNCHANGED << activeThreadId, isLoadingRepo, pendingRepo >>
  /\ UNCHANGED << routeVars, urlVars, setupVars >>
  /\ UNCHANGED pipeline

\* the outer catch and the finally of handleSendMessage
Caught(sentRequest, errorContent) ==
  /\ Rendered(withMessage(messages, sentRequest.assistantMessageId, Some(errorContent),
                          Some(FALSE)),
              activeThread.id, FALSE)
  /\ isLoading' = FALSE
  /\ inFlight' = inFlight \ { sentRequest }

\* the fetch settles: a response with a body is read, a response that is not ok is
\* thrown from the fallback, a rejected fetch is caught
ResponseArrives ==
  /\ \E sentRequest \in inFlight :
       /\ sentRequest.stage = "fetch"
       /\ \/ \E stream \in Streams :
               /\ inFlight' = (inFlight \ { sentRequest })
                                \cup { [ sentRequest EXCEPT !.stage = "reading",
                                                            !.events = stream ] }
               /\ UNCHANGED << messages, messageStore, isLoading >>
          \/ \E status \in FailedStatuses :
               Caught(sentRequest,
                      answerContent([ status |-> status, text |-> << "Failed to process query" >> ]))
          \/ Caught(sentRequest,
                    answerContent([ status |-> NetworkCode, text |-> << "Failed to fetch" >> ]))
  /\ UNCHANGED << input, isLoadingRepo, pendingRepo >>
  /\ UNCHANGED << routeVars, urlVars, setupVars, threadVars >>
  /\ UNCHANGED pipeline

\* one data: line of the stream. The Error thrown for an error event is caught by the
\* catch of JSON.parse around it, which ignores it
ReadEvent ==
  /\ \E sentRequest \in inFlight :
       /\ sentRequest.stage = "reading"
       /\ sentRequest.events # << >>
       /\ LET data == Head(sentRequest.events)
              content == IF IsDefined(data.token)
                         THEN Append(sentRequest.accumulatedContent, data.token[1])
                         ELSE sentRequest.accumulatedContent
              shown == IF IsDefined(data.token)
                       THEN withMessage(messages, sentRequest.assistantMessageId,
                                        Some(content), Undefined)
                       ELSE messages
              ended == IF IsDefined(data.done)
                       THEN withMessage(shown, sentRequest.assistantMessageId, Undefined,
                                        Some(FALSE))
                       ELSE shown
          IN /\ Rendered(ended, activeThread.id, FALSE)
             /\ inFlight' = (inFlight \ { sentRequest })
                              \cup { [ sentRequest EXCEPT !.events = Tail(@),
                                                          !.accumulatedContent = content ] }
  /\ UNCHANGED << input, isLoading, isLoadingRepo, pendingRepo >>
  /\ UNCHANGED << routeVars, urlVars, setupVars, threadVars >>
  /\ UNCHANGED pipeline

\* reader.read() reports done: the loop breaks and the finally runs
EndOfStream ==
  /\ \E sentRequest \in inFlight :
       /\ sentRequest.stage = "reading"
       /\ sentRequest.events = << >>
       /\ inFlight' = inFlight \ { sentRequest }
  /\ isLoading' = FALSE
  /\ UNCHANGED << messages, messageStore, input, isLoadingRepo, pendingRepo >>
  /\ UNCHANGED << routeVars, urlVars, setupVars, threadVars >>
  /\ UNCHANGED pipeline

\* reader.read() rejects because the connection was lost: the outer catch
ReadFails ==
  /\ \E sentRequest \in inFlight :
       /\ sentRequest.stage = "reading"
       /\ Caught(sentRequest,
                 answerContent([ status |-> NetworkCode, text |-> << "network error" >> ]))
  /\ UNCHANGED << input, isLoadingRepo, pendingRepo >>
  /\ UNCHANGED << routeVars, urlVars, setupVars, threadVars >>
  /\ UNCHANGED pipeline

StreamNext ==
  \/ OpenThread
  \/ TypeInput
  \/ StreamSend
  \/ ResponseArrives
  \/ ReadEvent
  \/ EndOfStream
  \/ ReadFails

\* every fetch settles, and a stream that was opened is read to its end
StreamSpec ==
  /\ ChatInit
  /\ [][StreamNext]_vars
  /\ WF_vars(ResponseArrives)
  /\ WF_vars(ReadEvent)
  /\ WF_vars(EndOfStream)

----------------------------------------------------------------------------
(* What the properties below speak of *)

Requests(tier, endpoint) ==
  SelectSeq(log, LAMBDA e : e.tier = tier /\ e.endpoint = endpoint)

\* the selected files that a tier added, by their relevance tag
FilesTagged(tag) == SelectSeq(files, LAMBDA f : f.relevance[1] = tag)
SearchFiles == FilesTagged("Search match - Score: ")
CommonFiles == FilesTagged("Common project file")
AdditionalFiles == FilesTagged("Structure analysis - Score: ")

NoDuplicates(xs) == \A i, j \in 1..Len(xs) : xs[i] = xs[j] => i = j

\* processQuery has returned
Returned == pc = "done" /\ IsDefined(result)
\* getRelevantCodeContext has returned
SelectorReturned == IsDefined(llm) /\ pc \in { "tree", "additional", "return", "generate", "done" }
\* getRepositoryContext has returned
ContextReturned == IsDefined(llm) /\ pc \in { "return", "generate", "done" }

NoTokenMessage ==
  << "GitHub token is required for all API operations. Please configure your GitHub token." >>

----------------------------------------------------------------------------
\* C1 (as stated): without a GitHub token processQuery ends with success=false and the
\* authentication-required error, and makes no GitHub request and no LLM call.
C1_AsStated ==
  ctx.githubToken = "" =>
    /\ Len(log) = 0
    /\ llmCalls = 0
    /\ Returned =>
         /\ result[1].success = FALSE
         /\ result[1].error = Some(<< "Failed to fetch repository data: " >> \o NoTokenMessage)

\* C1 (amended): without a GitHub token processQuery makes no GitHub request and no LLM
\* call and ends with success=false; the error is the authentication-required one when
\* the LLM provider is a supported one, and the unsupported-provider one otherwise.
C1_NoTokenFailsLocally ==
  ctx.githubToken = "" =>
    /\ Len(log) = 0
    /\ llmCalls = 0
    /\ Returned =>
         /\ result[1].success = FALSE
         /\ ctx.provider \in SupportedProviders =>
              result[1].error = Some(<< "Failed to fetch repository data: " >> \o NoTokenMessage)
         /\ ctx.provider \notin SupportedProviders =>
              result[1].error = Some(<< "Query processing failed: ", "Unsupported LLM provider: ",
                                        ctx.provider,
                                        ". Please try again or contact support if the issue persists." >>)

C1_Witness ==
  /\ ctx.githubToken = ""
  /\ ctx.provider \in SupportedProviders
  /\ Returned
  /\ ContextReturned

----------------------------------------------------------------------------
\* C2: when the code-search call fails with HTTP 500, getRelevantCodeContext still
\* issues content fetches for the canonical filenames (the fallback tier).
C2_FallbackAfterSearchFailure ==
  ( /\ SelectorReturned
    /\ \E i \in 1..Len(log) : log[i].endpoint = "search" /\ log[i].status = 500 )
  => Len(Requests("common", "contents")) > 0

----------------------------------------------------------------------------
\* C3: with a token and a supported provider, processQuery never returns before it has
\* invoked the LLM, whatever code search and the file fetches answered.
C3_EvidenceFailuresAreSoft ==
  ( /\ Returned
    /\ ctx.githubToken # ""
    /\ ctx.provider \in SupportedProviders )
  => llmCalls = 1

----------------------------------------------------------------------------
\* C4: at most 5 files come from the search tier, at most 3 from the fallback tier and
\* only when the search tier gave none, at most 5 from the enrichment tier and only when
\* fewer than 3 were gathered before it, and at most 8 files are selected in all.
C4_FetchBudget ==
  /\ Len(SearchFiles) <= 5
  /\ Len(CommonFiles) <= 3
  /\ Len(CommonFiles) > 0 => Len(SearchFiles) = 0
  /\ Len(AdditionalFiles) <= 5
  /\ Len(AdditionalFiles) > 0 => Len(SearchFiles) + Len(CommonFiles) < 3
  /\ Len(files) = Len(SearchFiles) + Len(CommonFiles) + Len(AdditionalFiles)
  /\ Len(files) <= 8

C4_Witness ==
  /\ ContextReturned
  /\ Len(SearchFiles) = 2
  /\ Len(AdditionalFiles) = 5

----------------------------------------------------------------------------
\* C5: in every successful outcome sources starts with the repository URL and holds no
\* string twice, in both variants of the answer synthesizer.
C5_SourcesDistinct ==
  /\ (Returned /\ result[1].success) =>
       /\ result[1].sources[1][1] = repoUrl(ctx.repository)
       /\ NoDuplicates(result[1].sources[1])
  /\ IsDefined(legacy) =>
       /\ legacy[1].sources[1] = repoUrl(ctx.repository)
       /\ NoDuplicates(legacy[1].sources)

\* README.md was fetched as the README and again as a selected file
C5_Witness ==
  /\ Returned
  /\ result[1].success
  /\ hasReadme(repositoryContext)
  /\ \E i \in 1..Len(files) : files[i].path = P_README

----------------------------------------------------------------------------
\* C6: every code reference starts at line 1 and spans at most 100 lines.
C6_ReferenceBound ==
  /\ (Returned /\ result[1].success) =>
       \A i \in 1..Len(result[1].codeReferences[1]) :
         LET ref == result[1].codeReferences[1][i]
         IN ref.startLine = 1 /\ ref.endLine - ref.startLine + 1 <= 100
  /\ IsDefined(legacy) =>
       \A i \in 1..Len(legacy[1].codeReferences) :
         LET ref == legacy[1].codeReferences[i]
         IN ref.startLine = 1 /\ ref.endLine - ref.startLine + 1 <= 100

\* an empty file and a file of more than 100 lines are both referenced
C6_Witness ==
  /\ Returned
  /\ result[1].success
  /\ \E i \in 1..Len(files) : Len(files[i].content) = 0
  /\ \E i \in 1..Len(files) : Len(split(files[i].content, "\n")) > 100
  /\ Len(result[1].codeReferences[1]) = Len(files)

----------------------------------------------------------------------------
Limited == "Note: Limited repository data is available."
Enumerating == "Available repository data:"

\* C7 (as stated): the system prompt takes the limited-data branch exactly when the
\* context has no README, no selected files and no tree.
C7_AsStated ==
  IsDefined(prompt) =>
    ( prompt[1].branch = Limited
      <=> (~IsDefined(readme) /\ Len(files) = 0 /\ ~IsDefined(structure)) )

\* C7 (amended): the system prompt takes the limited-data branch exactly when the
\* context has no README or an empty one, no selected files and no tree; otherwise it
\* takes the branch that enumerates the available data.
C7_LimitedBranch ==
  IsDefined(prompt) =>
    /\ prompt[1].branch \in { Limited, Enumerating }
    /\ prompt[1].branch = Limited
         <=> ( /\ (~IsDefined(readme) \/ readme = Some(<< >>))
               /\ Len(files) = 0
               /\ ~IsDefined(structure) )

\* the README was fetched, is empty, and is all the context has
C7_Witness ==
  /\ IsDefined(prompt)
  /\ prompt[1].branch = Limited
  /\ readme = Some(<< >>)

----------------------------------------------------------------------------
\* the repository has no README, the search gave zero hits, no canonical file exists
NothingFound ==
  /\ \E i \in 1..Len(log) : log[i].tier = "readme" /\ log[i].status = 404
  /\ \E i \in 1..Len(log) : log[i].endpoint = "search" /\ log[i].status = 200
  /\ Len(items) = 0
  /\ Len(Requests("common", "contents")) = Len(commonFiles)
  /\ \A i \in 1..Len(log) : log[i].tier = "common" => log[i].status = 404

TreeAnswered(ok) ==
  \E i \in 1..Len(log) : log[i].endpoint = "tree" /\ ((log[i].status = 200) <=> ok)

\* C8 (as stated): with no README, zero search hits and no canonical file, the context
\* has no files and no readme, and the system prompt is the limited-data one.
C8_AsStated ==
  (NothingFound /\ ContextReturned) =>
    /\ Len(files) = 0
    /\ ~IsDefined(readme)
    /\ IsDefined(prompt) => prompt[1].branch = Limited

\* C8 (amended): with no README, zero search hits and no canonical file, the context
\* has no readme; when the tree request fails as well it has no files and the prompt
\* is the limited-data one; when the tree request succeeds the prompt enumerates the
\* data and the only files are those of the enrichment tier.
C8_NothingFound ==
  (NothingFound /\ ContextReturned) =>
    /\ ~IsDefined(readme)
    /\ TreeAnswered(FALSE) =>
         /\ Len(files) = 0
         /\ IsDefined(prompt) => prompt[1].branch = Limited
    /\ TreeAnswered(TRUE) =>
         /\ Len(files) = Len(AdditionalFiles)
         /\ IsDefined(prompt) => prompt[1].branch = Enumerating

C8_Witness ==
  /\ NothingFound
  /\ TreeAnswered(FALSE)
  /\ IsDefined(prompt)
  /\ prompt[1].branch = Limited

----------------------------------------------------------------------------
\* the files the search and fallback tiers gathered
Gathered == Len(SearchFiles) + Len(CommonFiles)

\* C9 (as stated): the tree is requested only when fewer than 3 files were gathered by
\* the search and fallback tiers; with 3 or more there is no tree request and no tree
\* in the returned context.
C9_AsStated ==
  ContextReturned =>
    /\ Len(Requests("tree", "tree")) > 0 => Gathered < 3
    /\ Gathered >= 3 => ~IsDefined(structure)

\* C9 (amended): with a token, getRepositoryContext requests the tree exactly once,
\* whatever the search and fallback tiers gathered; the returned context carries the
\* tree exactly when that request succeeded; fewer than 3 gathered files is the
\* condition of the enrichment fetches only.
C9_TreeAlwaysRequested ==
  ContextReturned =>
    /\ Len(Requests("tree", "tree")) = (IF ctx.githubToken = "" THEN 0 ELSE 1)
    /\ IsDefined(structure) <=> TreeAnswered(TRUE)
    /\ Len(Requests("additional", "contents")) > 0 => (Gathered < 3 /\ IsDefined(structure))

C9_Witness ==
  /\ ContextReturned
  /\ Gathered >= 3
  /\ IsDefined(structure)
  /\ Len(structure[1].tree) > 0

----------------------------------------------------------------------------
\* the requests for the contents of the search hits, in the order they were made
HitRequests == Requests("search", "contents")

\* the hits among the first n requested whose fetch gave a file
RECURSIVE FetchedHits(_)
FetchedHits(n) ==
  IF n = 0 THEN << >>
  ELSE FetchedHits(n - 1)
       \o (IF HitRequests[n].status = 200 /\ repoFiles[HitRequests[n].path].kind = "file"
           THEN << [ path |-> items[n].path,
                     content |-> repoFiles[items[n].path].content,
                     relevance |-> << "Search match - Score: ", items[n].score >> ] >>
           ELSE << >>)

\* C10: once the search tier has run, every one of the first 5 hits was requested, in
\* GitHub's order, and the search tier's files are those of the hits whose fetch
\* succeeded, in that order.
C10_SearchTier ==
  (SelectorReturned /\ ~IsDefined(ctxError)) =>
    /\ Len(HitRequests) = Min(5, Len(items))
    /\ \A k \in 1..Len(HitRequests) : HitRequests[k].path = items[k].path
    /\ SearchFiles = FetchedHits(Len(HitRequests))

\* a hit whose fetch failed is followed by one whose fetch succeeded, among more than 5
C10_Witness ==
  /\ SelectorReturned
  /\ Len(items) > 5
  /\ Len(HitRequests) = 5
  /\ HitRequests[2].status = 404
  /\ HitRequests[3].status = 200
  /\ Len(SearchFiles) = 4

----------------------------------------------------------------------------
\* the requests for the canonical files, in the order they were made
CommonRequests == Requests("common", "contents")

\* the code search was answered with a result
SearchAnswered == \E i \in 1..Len(log) : log[i].endpoint = "search" /\ log[i].status = 200

\* a contents request that gave a file
GaveFile(e) == e.status = 200 /\ repoFiles[e.path].kind = "file"

\* the canonical files among the first n requested whose fetch gave a file
RECURSIVE FetchedCommon(_)
FetchedCommon(n) ==
  IF n = 0 THEN << >>
  ELSE FetchedCommon(n - 1)
       \o (IF GaveFile(CommonRequests[n])
           THEN << [ path |-> commonFiles[n],
                     content |-> repoFiles[commonFiles[n]].content,
                     relevance |-> << "Common project file" >> ] >>
           ELSE << >>)

----------------------------------------------------------------------------
\* the requests of the enrichment tier, in the order they were made
AdditionalRequests == Requests("additional", "contents")

\* the paths the search and fallback tiers selected
GatheredPaths == Range(pathsOf(SearchFiles \o CommonFiles))

\* the entries of the fetched tree the enrichment tier may choose from
Candidates ==
  { i \in 1..Len(structure[1].tree) :
      /\ structure[1].tree[i].type = "blob"
      /\ structure[1].tree[i].path \notin GatheredPaths }

\* the scores of the first n entries of a tree, for a query
RECURSIVE TreeScores(_, _, _)
TreeScores(query, tree, n) ==
  IF n = 0 THEN << >>
  ELSE Append(TreeScores(query, tree, n - 1), scoreOf(toLowerCase(query), tree[n]))

\* the place of entry i among the candidates: higher scores first, ties in tree order
TreeRank(scores, candidates, i) ==
  1 + Cardinality({ j \in candidates :
                      \/ scores[j] > scores[i]
                      \/ scores[j] = scores[i] /\ j < i })

\* the candidate at each of the first n places
RECURSIVE Ranked(_, _, _)
Ranked(scores, candidates, n) ==
  IF n = 0 THEN << >>
  ELSE Append(Ranked(scores, candidates, n - 1),
              CHOOSE i \in candidates : TreeRank(scores, candidates, i) = n)

\* C12: the enrichment tier chooses among the tree blobs whose path is not selected yet,
\* requests the 5 first of them by score, highest first and ties in tree order, and
\* appends those whose fetch gave a file, in that order, after the earlier tiers' files.
C12_EnrichmentTier ==
  pc = "return" =>
    IF IsDefined(structure) /\ Gathered < 3
    THEN \E tree \in { structure[1].tree } :
         \E candidates \in { Candidates } :
         \E scores \in { TreeScores(ctx.query, tree, Len(tree)) } :
         \E first \in { Ranked(scores, candidates, Min(5, Cardinality(candidates))) } :
           LET fetched == SelectSeq([k \in 1..Len(AdditionalRequests) |-> k],
                                    LAMBDA k : GaveFile(AdditionalRequests[k]))
           IN /\ Len(AdditionalRequests) = Len(first)
              /\ \A k \in 1..Len(first) : AdditionalRequests[k].path = tree[first[k]].path
              /\ AdditionalFiles =
                   [n \in 1..Len(fetched) |->
                     [ path |-> tree[first[fetched[n]]].path,
                       content |-> repoFiles[tree[first[fetched[n]]].path].content,
                       relevance |-> << "Structure analysis - Score: ",
                                        scores[first[fetched[n]]] >> ]]
              /\ files = SearchFiles \o CommonFiles \o AdditionalFiles
    ELSE /\ Len(AdditionalRequests) = 0
         /\ Len(AdditionalFiles) = 0

\* more than 5 candidates, a selected path left out, a tie cut by the limit, a failed
\* fetch followed by a successful one
C12_Witness ==
  /\ pc = "return"
  /\ IsDefined(structure)
  /\ Gathered >= 1
  /\ Len(AdditionalRequests) = 5
  /\ Len(AdditionalFiles) = 4
  /\ \E k \in 1..4 : AdditionalRequests[k].status = 404 /\ AdditionalRequests[k + 1].status = 200
  /\ \E i \in 1..Len(structure[1].tree) : structure[1].tree[i].path \in GatheredPaths
  /\ Cardinality(Candidates) > 5
  /\ \E scores \in { TreeScores(ctx.query, structure[1].tree, Len(structure[1].tree)) } :
       \E i, j \in Candidates :
          /\ scores[i] = scores[j]
          /\ TreeRank(scores, Candidates, i) <= 5
          /\ TreeRank(scores, Candidates, j) > 5

----------------------------------------------------------------------------
\* the terms of a query: the pieces between its spaces that are not empty, lowercased
ActualTerms(query) ==
  { t \in Range(split(toLowerCase(query), " ")) : Len(t) > 0 }

\* what the score of a scored file holds beyond the path bonuses and the penalties
ObservedQueryBonus(item) ==
  item.score - pathBonus(toLowerCase(item.path)) + sizePenalty(item) + depthPenalty(item)

\* C13: a scored file has the +10 query bonus exactly when one of the query's terms is
\* a substring of its lowercased path, also for a query with leading, trailing or
\* repeated spaces.
C13_QueryBonus ==
  (pc = "additional" /\ idx = 1) =>
    \A i \in 1..Len(scoredFiles) :
      ObservedQueryBonus(scoredFiles[i])
        = IF \E t \in ActualTerms(ctx.query) : includes(toLowerCase(scoredFiles[i].path), t)
          THEN 10 ELSE 0

----------------------------------------------------------------------------
Slashes(path) == Cardinality({ i \in 1..Len(path) : path[i] = "/" })

\* what the score of a scored file lacks of its bonuses
ObservedPenalty(item) ==
  queryBonus(toLowerCase(ctx.query), toLowerCase(item.path))
  + pathBonus(toLowerCase(item.path)) - item.score

\* C14 (as stated): a scored file is penalised by 2 exactly when its size exceeds 50,000
\* and by 1 exactly when its path has more than 4 slashes.
C14_AsStated ==
  (pc = "additional" /\ idx = 1) =>
    \A i \in 1..Len(scoredFiles) :
      ObservedPenalty(scoredFiles[i])
        = (IF IsDefined(scoredFiles[i].size) /\ scoredFiles[i].size[1] > 50000 THEN 2 ELSE 0)
          + (IF Slashes(scoredFiles[i].path) > 4 THEN 1 ELSE 0)

\* C14 (amended): a scored file is penalised by 2 exactly when its size exceeds 50,000
\* and by 1 exactly when its path has more than 4 segments, that is 4 slashes or more;
\* a path with 3 slashes or fewer gets no depth penalty.
C14_Penalties ==
  (pc = "additional" /\ idx = 1) =>
    \A i \in 1..Len(scoredFiles) :
      ObservedPenalty(scoredFiles[i])
        = (IF IsDefined(scoredFiles[i].size) /\ scoredFiles[i].size[1] > 50000 THEN 2 ELSE 0)
          + (IF Slashes(scoredFiles[i].path) >= 4 THEN 1 ELSE 0)

\* a path of exactly 4 slashes is penalised, one of 3 slashes and exactly 50,000 bytes is not
C14_Witness ==
  /\ pc = "additional"
  /\ idx = 1
  /\ \E i \in 1..Len(scoredFiles) :
       Slashes(scoredFiles[i].path) = 4 /\ ObservedPenalty(scoredFiles[i]) = 1
  /\ \E i \in 1..Len(scoredFiles) :
       /\ Slashes(scoredFiles[i].path) = 3
       /\ scoredFiles[i].size = Some(50000)
       /\ ObservedPenalty(scoredFiles[i]) = 0

----------------------------------------------------------------------------
\* the place where x first stands in xs
FirstIndex(xs, x) == CHOOSE i \in 1..Len(xs) : xs[i] = x /\ \A j \in 1..(i - 1) : xs[j] # x

\* ys is xs with every later repetition removed
FirstOccurrences(ys, xs) ==
  /\ NoDuplicates(ys)
  /\ Range(ys) = Range(xs)
  /\ \A i, j \in 1..Len(ys) : i < j => FirstIndex(xs, ys[i]) < FirstIndex(xs, ys[j])

\* the repository URL, the README's URL when there is one, the URL of each selected file
ExpectedSources(withReadme) ==
  << repoUrl(ctx.repository) >>
  \o (IF withReadme
      THEN << repoUrl(ctx.repository) \o << "/blob/main/" >> \o P_README >>
      ELSE << >>)
  \o [i \in 1..Len(files) |-> repoUrl(ctx.repository) \o << "/blob/main/" >> \o files[i].path]

\* C15 (as stated): in every successful outcome sources is [repository URL, README URL
\* if the context has a README, one URL per selected file in selection order] with
\* every later repetition removed.
C15_AsStated ==
  (Returned /\ result[1].success) =>
    FirstOccurrences(result[1].sources[1], ExpectedSources(IsDefined(readme)))

\* C15 (amended): in every successful outcome sources is [repository URL, README URL if
\* the context has a README that is not empty, one URL per selected file in selection
\* order] with every later repetition removed.
C15_SourcesOrder ==
  (Returned /\ result[1].success) =>
    FirstOccurrences(result[1].sources[1],
                     ExpectedSources(IsDefined(readme) /\ readme # Some(<< >>)))

\* README.md is the README and the last of three selected files
C15_Witness ==
  /\ Returned
  /\ result[1].success
  /\ IsDefined(readme)
  /\ readme # Some(<< >>)
  /\ Len(files) = 3
  /\ files[3].path = P_README
  /\ Len(result[1].sources[1]) = 4

----------------------------------------------------------------------------
Newlines(text) == Cardinality({ i \in 1..Len(text) : text[i] = "\n" })

\* part is the first n lines of text, joined by newlines
FirstLines(part, text, n) ==
  /\ Len(part) <= Len(text)
  /\ part = SubSeq(text, 1, Len(part))
  /\ Newlines(part) = n - 1
  /\ Len(part) = Len(text) \/ text[Len(part) + 1] = "\n"

\* C16: codeReferences has one entry per selected file, in selection order; endLine is
\* min(100, number of lines of the file), a file of n newlines counting n + 1 lines;
\* content is the first endLine lines joined by newlines; url is the file's blob URL.
C16_CodeReferences ==
  (Returned /\ result[1].success) =>
    /\ Len(result[1].codeReferences[1]) = Len(files)
    /\ \A i \in 1..Len(files) :
         LET ref == result[1].codeReferences[1][i]
         IN /\ ref.file = files[i].path
            /\ ref.startLine = 1
            /\ ref.endLine = Min(100, Newlines(files[i].content) + 1)
            /\ FirstLines(ref.content, files[i].content, ref.endLine)
            /\ ref.url = repoUrl(ctx.repository) \o << "/blob/main/" >> \o files[i].path

\* three files are referenced, one of them cut at 100 lines, one whole
C16_Witness ==
  /\ Returned
  /\ result[1].success
  /\ Len(result[1].codeReferences[1]) = 3
  /\ \E i \in 1..3 :
       /\ result[1].codeReferences[1][i].endLine = 100
       /\ Len(result[1].codeReferences[1][i].content) < Len(files[i].content)
  /\ \E i \in 1..3 :
       /\ result[1].codeReferences[1][i].endLine < 100
       /\ result[1].codeReferences[1][i].content = files[i].content

----------------------------------------------------------------------------
----------------------------------------------------------------------------
\* a message that has text
NonEmptyMessage(message) == Len(message) > 0 /\ message[1] # ""

\* processQuery is at a step it can take: a position of the code, and inside a loop
\* an element of the list the loop runs over
CanStep ==
  /\ pc \in { "processQuery", "readme", "search", "hits", "common", "tree", "additional",
              "return", "generate" }
  /\ pc = "hits" => idx \in 1..Len(relevantFiles)
  /\ pc = "common" => idx \in 1..Len(commonFiles)
  /\ pc = "additional" => idx \in 1..Len(scoredFiles)

\* C18: processQuery always comes to its end with a QueryResult, whatever GitHub and
\* the LLM provider do: success=true with an answer, sources and codeReferences, or
\* success=false with a non-empty error message.
C18_AlwaysAResult ==
  /\ pc # "done" => CanStep
  /\ (pc = "done" /\ ~IsDefined(legacy)) => IsDefined(result)
  /\ IsDefined(result) =>
       IF result[1].success
       THEN /\ IsDefined(result[1].response)
            /\ IsDefined(result[1].sources)
            /\ IsDefined(result[1].codeReferences)
            /\ ~IsDefined(result[1].error)
       ELSE /\ IsDefined(result[1].error)
            /\ NonEmptyMessage(result[1].error[1])

\* the LLM provider's error was caught after GitHub had answered
C18_Witness ==
  /\ Returned
  /\ llmCalls = 1
  /\ Len(log) > 0
  /\ result[1].success = FALSE
  /\ result[1].error = Some(<< "AI provider authentication failed. Please check your API key configuration." >>)

----------------------------------------------------------------------------
\* C19: with a provider outside openai, anthropic, openrouter, processQuery makes no
\* GitHub request and no LLM request, and ends at once with success=false.
C19_UnsupportedProvider ==
  ctx.provider \notin { "openai", "anthropic", "openrouter" } =>
    /\ Len(log) = 0
    /\ llmCalls = 0
    /\ ~IsDefined(llm)
    /\ pc \in { "processQuery", "done" }
    /\ IsDefined(result) => result[1].success = FALSE

\* processQuery has returned for an unsupported provider and a GitHub token
C19_Witness ==
  /\ ctx.provider \notin { "openai", "anthropic", "openrouter" }
  /\ ctx.githubToken # ""
  /\ Returned
  /\ result[1].success = FALSE

----------------------------------------------------------------------------
\* GitHub answered every contents request and the tree request of the query with
\* status, and the code search with a result or with status as well
Refused(status) ==
  /\ Len(Requests("readme", "contents")) > 0
  /\ Len(Requests("tree", "tree")) > 0
  /\ \A i \in 1..Len(log) : log[i].endpoint \in { "contents", "tree" } => log[i].status = status
  /\ \A i \in 1..Len(log) : log[i].endpoint = "search" => log[i].status \in { 200, status }

\* the error messages of processQuery that tell of a refusal with status
RefusalMessages(status) ==
  IF status = 404
  THEN { << "Repository not found or not accessible. Please check the repository URL and your permissions." >>,
         << "Failed to fetch repository data: ", "Resource not found or repository is private" >> }
  ELSE { << "GitHub rate limit exceeded. Please wait a few minutes before trying again." >>,
         << "Failed to fetch repository data: ", "Rate limit exceeded or insufficient permissions" >> }

\* C20: when GitHub answers the contents and tree requests of a query with 404, or with
\* 403, processQuery returns success=false with the error of that kind.
C20_RefusalsFail ==
  \A status \in { 404, 403 } :
    (Returned /\ Refused(status)) =>
      /\ result[1].success = FALSE
      /\ result[1].error[1] \in RefusalMessages(status)

----------------------------------------------------------------------------
\* C21: in every execution of processQuery the LLM is invoked at most once, only after
\* getRepositoryContext has returned and without any GitHub request following it, and
\* not when getRepositoryContext returned an error.
C21_SingleInvocation ==
  [][ /\ llmCalls' <= 1
      /\ llmCalls' > llmCalls => /\ ContextReturned
                                 /\ ~IsDefined(repositoryContext.error)
      /\ llmCalls >= 1 => log' = log ]_vars

\* processQuery returned after one LLM invocation that followed six GitHub requests
C21_Witness ==
  /\ Returned
  /\ llmCalls = 1
  /\ Len(log) >= 6

----------------------------------------------------------------------------
AuthenticationFailed ==
  << "AI provider authentication failed. Please check your API key configuration." >>

\* C23 (as stated): whenever the LLM provider rejects the API key, processQuery returns
\* the AI-provider authentication error, whatever else the provider's message contains.
C23_KeyRejection ==
  (Returned /\ IsDefined(thrown) /\ thrown[1] \in KeyRejections) =>
    /\ ~result[1].success
    /\ result[1].error = Some(AuthenticationFailed)

----------------------------------------------------------------------------
\* a name as GitHub allows it: 1 to 39 alphanumerics and hyphens, no hyphen at either
\* end, no two hyphens in a row
StrictName(name) ==
  /\ Len(name) \in 1..(InnerLimit + 2)
  /\ \A i \in 1..Len(name) : name[i] \in Alphanumerics \cup { "-" }
  /\ name[1] # "-"
  /\ name[Len(name)] # "-"
  /\ \A i \in 1..(Len(name) - 1) : ~(name[i] = "-" /\ name[i + 1] = "-")

\* C24 (as stated): isValidGitHubUrl accepts a text only when the parsed owner and the
\* parsed repository name are both non-empty, at most 39 characters long, made of
\* alphanumerics and single hyphens, and neither start nor end with a hyphen.
C24_StrictValidation ==
  (IsDefined(valid) /\ valid[1]) =>
    /\ IsDefined(parsed[1])
    /\ StrictName(parsed[1][1].owner)
    /\ StrictName(parsed[1][1].repo)

----------------------------------------------------------------------------
(* What the request of POST /api/query brings *)

HasSession ==
  /\ IsDefined(request[1].session)
  /\ request[1].session[1].user
  /\ request[1].session[1].accessToken # ""
HasBody == IsDefined(request[1].body)
HasInputs ==
  /\ HasBody
  /\ request[1].body[1].repositoryUrl # << >>
  /\ request[1].body[1].query # << >>
UrlParses == HasInputs /\ IsDefined(parseGitHubUrl(request[1].body[1].repositoryUrl))
KeyDecrypts ==
  /\ IsDefined(request[1].cookie)
  /\ request[1].cookie[1].json
  /\ IsDefined(request[1].cookie[1].encryptedApiKey)
  /\ Len(request[1].cookie[1].encryptedApiKey[1]) = 3
  /\ \E key \in { "sk-key", "sk-other" } :
       request[1].cookie[1].encryptedApiKey[1] = encryptApiKey(key)
Streaming == request[1].accept = "text/stream"
ProcessQueryCalled == pc # "idle"
\* the response is complete
Responded == IsDefined(routeResponse) /\ routeResponse[1].closed

----------------------------------------------------------------------------
\* the texts handed to onToken, in order
StreamedTokens ==
  LET events == SelectSeq(routeResponse[1].chunks, LAMBDA e : IsDefined(e.token))
  IN [i \in 1..Len(events) |-> events[i].token[1]]

\* C22 (as stated): for the same query and the same GitHub and LLM responses, the tokens
\* a streaming request delivers, concatenated, are the answer text the non-streaming
\* request returns, and both end with the same sources and codeReferences.
C22_StreamingEquivalence ==
  (IsDefined(request) /\ Streaming /\ Responded /\ ProcessQueryCalled /\ result[1].success) =>
    LET last == routeResponse[1].chunks[Len(routeResponse[1].chunks)]
    IN /\ flatten(StreamedTokens) = queryResponse(result[1]).response[1]
       /\ last.sources = queryResponse(result[1]).sources
       /\ last.codeReferences = queryResponse(result[1]).codeReferences

----------------------------------------------------------------------------
\* C28 (as stated): after any sequence of LLM setup requests and provider-switch
\* requests, the API key in the llm-config cookie is a key that was validated for the
\* provider in the same cookie.
C28_KeyValidatedForProvider ==
  IsDefined(cookieJar) =>
    << cookieJar[1].provider, decryptApiKey(cookieJar[1].encryptedApiKey).result[1] >>
      \in validatedKeys

----------------------------------------------------------------------------
\* the thread list a reload of the page would restore
PersistedThreads == IF IsDefined(chatThreads) THEN chatThreads[1] ELSE << >>

\* C29 (as stated): after any sequence of createNewThread, updateThread and deleteThread
\* the thread list persisted under chat-threads equals the in-memory thread list, also
\* when the last thread was deleted.
C29_ThreadsPersisted == PersistedThreads = threads

\* C26: the messages stored under messages-<threadId> are messages of that thread:
\* whatever threads are selected, queries sent, replies received and repositories
\* submitted, no message of one thread is stored under the key of another
C26_MessagesUnderOwnKey ==
  \A id \in ChatThreadIds :
    IsDefined(messageStore[id]) => \A m \in Range(messageStore[id][1]) : m.thread = id

\* C30: at most one request to /api/query is in flight, and while isLoading is true no
\* step starts another one
C30_OneRequestInFlight ==
  [][ /\ Cardinality(inFlight') <= 1
      /\ isLoading => inFlight' \subseteq inFlight ]_vars

\* the placeholder of an answer, while it is shown as streaming and once it is not
Placeholders == { << "msg-", t >> : t \in 0..(MaxChatNow + 2) }
IsStreaming(assistantMessageId) ==
  \E m \in Range(messages) : m.id = assistantMessageId /\ m.isStreaming = Some(TRUE)
Settled(assistantMessageId) ==
  \E m \in Range(messages) : m.id = assistantMessageId /\ m.isStreaming = Some(FALSE)

\* C27: every handleSendMessage of the streaming window that issued a request
\* eventually leaves its placeholder with isStreaming false and isLoading false,
\* whatever the stream delivers
C27_PlaceholderSettles ==
  \A assistantMessageId \in Placeholders :
    IsStreaming(assistantMessageId) ~> (Settled(assistantMessageId) /\ ~isLoading)

====
